---- MODULE Spec2Model ----
(***************************************************************************)
(* State-machine model of the SEBI corpus core:                            *)
(*   - EmbeddingGenerator (corpus/embedder.ts): cache, batching, bounded   *)
(*     concurrency, sliding-window rate limiter, retry with backoff;       *)
(*   - chunkDocument and its helpers (corpus/pdf-parser.ts);               *)
(*   - hybridSearch of the QdrantManager (corpus/qdrant-client.ts):        *)
(*     vector ranking, BM25 ranking, reciprocal rank fusion;               *)
(*   - the QdrantManager's requests to the vector store and the            *)
(*     CorpusIngestion pipeline (corpus/ingest.ts) over them.              *)
(* Time is in milliseconds.  A text is a string; a vector is the record    *)
(* [of |-> text it embeds, len |-> its length].                            *)
(***************************************************************************)
EXTENDS Integers, Sequences, FiniteSets, TLC

VARIABLES
    cfg,                \* constructor options of the EmbeddingGenerator
    cache,              \* NodeCache contents, in key insertion order
    requestTimestamps,  \* EmbeddingGenerator.requestTimestamps
    clock,              \* Date.now()
    queue,              \* runWithConcurrency: batches not yet taken
    workers,            \* runWorker coroutines (and the embedText caller)
    op,                 \* the public call being made, or the last one made
    prev,               \* what the call before it was and returned
    env,                \* what the environment has done so far: provider
                        \* failures, short answers, ticks, expiries
    doc,                \* chunker: the document being chunked
    opts,               \* chunker: ChunkOptions
    chunks,             \* chunker: the passages chunkDocument returned
    chunked,            \* chunker: TRUE once chunkDocument has run
    extracted,          \* chunker: what extractSections returned
    store,              \* retrieval: the stored points, in scroll order
    query,              \* retrieval: hybridSearch's query
    searchLimit,        \* retrieval: hybridSearch's limit
    semanticHits,       \* retrieval: what semanticSearch returned
    keywordHits,        \* retrieval: what keywordSearch returned
    fused,              \* retrieval: what reciprocalRankFusion returned
    searchPc,           \* retrieval: where hybridSearch stands
    qdrant,             \* corpus: the vector store behind the QdrantClient
    requests,           \* corpus: the requests the last public call issued
    call                \* corpus: the last public call and how it settled

embedVars == <<cfg, cache, requestTimestamps, clock, queue, workers, op, prev, env>>
chunkVars == <<doc, opts, chunks, chunked, extracted>>
searchVars == <<store, query, searchLimit, semanticHits, keywordHits, fused, searchPc>>
corpusVars == <<qdrant, requests, call>>
vars == <<cfg, cache, requestTimestamps, clock, queue, workers, op, prev, env,
          doc, opts, chunks, chunked,
          store, query, searchLimit, semanticHits, keywordHits, fused, searchPc,
          qdrant, requests, call>>

----------------------------------------------------------------------------
(* Program constants *)

VECTOR_SIZE == 3072
DEFAULT_MAX_CONCURRENCY == 5
MAX_CACHE_ENTRIES == 1000
ONE_MINUTE_MS == 60000
RETRY_ATTEMPTS == 5
BACKOFF_BASE_MS == 100
RATE_SLACK_MS == 5
RRF_K == 60
OVERFETCH_FACTOR == 2
MIN_OVERFETCH == 10

(* Bounds of the model *)

MaxConcurrency == 2      \* largest maxConcurrency option tried
MaxBatchSize == 3        \* largest batchSize option tried
MaxRateLimit == 2        \* largest rateLimitPerMinute option tried
MaxTexts == 3            \* longest embedBatch input
MaxOps == 2              \* public calls per client
MaxFlakyCalls == 1       \* provider calls per client whose first attempt fails
MaxShort == 1            \* provider answers with a vector missing, per client
MaxTicks == 1            \* spontaneous clock advances per client
MaxExpiries == 1         \* cache entries lost to the TTL per client
MaxLines == 4            \* lines of a document
MaxSentenceTokens == 3   \* tokens of one sentence
MaxTokensOpt == 3        \* largest maxTokens option tried
MaxMinTokensOpt == 2     \* largest minTokens option tried
MaxOverlapOpt == 2       \* largest overlap option tried
MaxHits == 3             \* longest result list handed to the fusion
MaxLimit == 3            \* largest limit tried
MaxStore == 2            \* most points in the store
MaxWords == 1            \* most words in a passage or a query

----------------------------------------------------------------------------
(* Values *)

Min(a, b) == IF a < b THEN a ELSE b
Max(a, b) == IF a > b THEN a ELSE b

RECURSIVE Pow2(_)
Pow2(n) == IF n = 0 THEN 1 ELSE 2 * Pow2(n - 1)

\* Texts handed to the client: some differ only by surrounding whitespace,
\* one is blank.
TextSet == {"a", "b"}
PaddedText == " a"
BlankText == " "

\* String.prototype.trim on the texts above.
Trim(t) == CASE t = " a" -> "a"
             [] t = " "  -> ""
             [] OTHER    -> t

\* An array slot that was never assigned (new Array(n) creates holes).
Hole == [of |-> "<hole>", len |-> 0]
\* cache.get on an absent key.
Undefined == [of |-> "<undefined>", len |-> 0]

Vec(t, n) == [of |-> t, len |-> n]
\* The vector length is a property of the provider model the client was
\* constructed with (options.model).
VecLens == {VECTOR_SIZE, VECTOR_SIZE \div 2}

\* JavaScript truthiness of an array slot read: an array (a vector) is
\* always truthy, undefined is not.
Truthy(v) == v # Undefined /\ v # Hole

cacheKey(text) == <<"md5", text>>

----------------------------------------------------------------------------
(* NodeCache *)

CacheKeys(c) == [i \in 1..Len(c) |-> c[i].key]
CacheHas(c, k) == \E i \in 1..Len(c) : c[i].key = k
CacheGet(c, k) ==
    IF CacheHas(c, k)
    THEN c[CHOOSE i \in 1..Len(c) : c[i].key = k].value
    ELSE Undefined
CacheDel(c, k) == SelectSeq(c, LAMBDA e : e.key # k)
CacheSet(c, k, v) ==
    IF CacheHas(c, k)
    THEN [i \in 1..Len(c) |-> IF c[i].key = k THEN [key |-> k, value |-> v] ELSE c[i]]
    ELSE Append(c, [key |-> k, value |-> v])

setCacheEntry_Drops(c, k, v) == c

setCacheEntry_NoEvict(c, k, v) == CacheSet(c, k, v)

setCacheEntry(c, k, v) ==
    LET c1 == IF Len(c) >= MAX_CACHE_ENTRIES /\ ~CacheHas(c, k) /\ Len(c) > 0
              THEN CacheDel(c, c[1].key)
              ELSE c
    IN CacheSet(c1, k, v)

----------------------------------------------------------------------------
(* Records *)

NoError == [kind |-> "none", id |-> 0]
ProviderError(n) == [kind |-> "provider", id |-> n]
EmptyTextError == [kind |-> "Cannot embed empty text", id |-> 0]
MissingIndexError(i) == [kind |-> "Missing embedding for text index", id |-> i]
MissingEntryError(i) == [kind |-> "Missing embedding for batch entry", id |-> i]
ZodError == [kind |-> "ZodError", id |-> 0]

IdleWorker ==
    [pc |-> "idle", start |-> 0, items |-> <<>>, vectors |-> <<>>,
     uTexts |-> <<>>, uIdx |-> <<>>, attempt |-> 0, lastError |-> NoError,
     errs |-> <<>>, wakeAt |-> 0]

Workers == 1..Max(MaxConcurrency, 1)

\* A public call: its kind and input, how it settled, and what it asked of
\* the provider (sent: the payloads of its provider invocations, each with
\* the offset of its batch; calls: the number of provider invocations;
\* logical: the number of executeWithRetry invocations; misses: the
\* positions of its texts that had no cached vector when it was made).  A
\* batch call is
\* embedChunks(chunks) awaiting embedBatch(contents): status, results and
\* error are embedBatch's, chunks is what embedChunks then settles with.
NewOp(kind, texts, n) ==
    [kind |-> kind, texts |-> texts, status |-> "running",
     results |-> [i \in 1..Len(texts) |-> Hole], error |-> NoError,
     sent |-> {}, calls |-> 0, logical |-> 0, warned |-> FALSE, lost |-> FALSE,
     chunks |-> "none", errs |-> <<>>, seq |-> n, misses |-> <<>>]

NoOp == [NewOp("none", <<>>, 0) EXCEPT !.status = "idle"]

\* What is kept of a call once the next one starts: an embedText call that
\* resolved, its text and vector, and whether the cache entry it wrote has
\* expired since.
NoPrev == [kind |-> "none", text |-> "", result |-> Hole, logical |-> 0, lost |-> FALSE]
Summary(o) ==
    IF o.kind = "embedText" /\ o.status = "resolved"
    THEN [kind |-> "embedText", text |-> o.texts[1], result |-> o.results[1],
          logical |-> o.logical, lost |-> o.lost]
    ELSE NoPrev

----------------------------------------------------------------------------
(* Rate limiter *)

RECURSIVE PruneTimestamps(_, _)
PruneTimestamps(ts, now) ==
    IF Len(ts) > 0 /\ now - ts[1] > ONE_MINUTE_MS
    THEN PruneTimestamps(Tail(ts), now)
    ELSE ts

\* enforceRateLimit up to its first suspension: the pruned window, and
\* either the timestamp pushed at once or the time the delay ends.
enforceRateLimit(ts, now, limit) ==
    LET pruned == PruneTimestamps(ts, now) IN
    IF Len(pruned) >= limit
    THEN [ts |-> pruned, wait |-> TRUE,
          wakeAt |-> now + (ONE_MINUTE_MS - (now - pruned[1]) + RATE_SLACK_MS)]
    ELSE [ts |-> Append(pruned, now), wait |-> FALSE, wakeAt |-> 0]

enforceRateLimitResume_NoPush(ts, now) == ts

\* enforceRateLimit after its delay: the timestamp is pushed unconditionally.
enforceRateLimitResume(ts, now) == Append(ts, now)

----------------------------------------------------------------------------
(* Synchronous segments.  S = [ts, q, ws, op] is threaded through the code  *)
(* that runs without suspension.                                            *)

Invoked(o, start, payload) ==
    [o EXCEPT !.sent = @ \cup {<<start, payload>>}, !.calls = @ + 1]

\* One attempt of the function passed to executeWithRetry, up to the
\* provider invocation or the rate-limit delay.
BeginAttempt(S, w, now) ==
    LET r == enforceRateLimit(S.ts, now, cfg.rateLimitPerMinute)
        wr == S.ws[w]
    IN [S EXCEPT !.ts = r.ts,
                 !.ws[w] = [wr EXCEPT !.pc = IF r.wait THEN "ratewait" ELSE "inflight",
                                      !.wakeAt = r.wakeAt],
                 !.op = IF r.wait THEN S.op ELSE Invoked(S.op, wr.start, wr.uTexts)]

\* embedBatch's worker callback: vectors.forEach writes results[start + idx];
\* forEach skips holes.
Deliver(o, start, vectors) ==
    [o EXCEPT !.results =
        [i \in 1..Len(@) |->
            IF (i - start) \in 1..Len(vectors) /\ vectors[i - start] # Hole
            THEN vectors[i - start]
            ELSE @[i]]]

createBatches(items, batchSize) ==
    LET n == (Len(items) + batchSize - 1) \div batchSize IN
    [b \in 1..n |->
        [start |-> (b - 1) * batchSize,
         items |-> SubSeq(items, (b - 1) * batchSize + 1,
                          Min(b * batchSize, Len(items)))]]

UncachedIndices_Dedup(items, c) ==
    SelectSeq([i \in 1..Len(items) |-> i],
              LAMBDA i : /\ ~Truthy(CacheGet(c, cacheKey(items[i])))
                         /\ \A j \in 1..(i - 1) : items[j] # items[i])

\* embedTextsChunk's cache check: the positions of the batch whose text has
\* no cached vector, in order (uncachedIndices).
UncachedIndices(items, c) ==
    SelectSeq([i \in 1..Len(items) |-> i],
              LAMBDA i : ~Truthy(CacheGet(c, cacheKey(items[i]))))

\* embedTextsChunk up to its first suspension: the cache check of every
\* text of the batch, then the first attempt of the provider call.
shift_Last(q) == [next |-> q[Len(q)], rest |-> SubSeq(q, 1, Len(q) - 1)]

\* const next = queue.shift()
shift(q) == [next |-> Head(q), rest |-> Tail(q)]

embedTextsChunk(S, w, c, now) ==
    LET b == shift(S.q).next
        items == b.items
        uIdx == UncachedIndices(items, c)
        hit(i) == \A j \in 1..Len(uIdx) : uIdx[j] # i
        vectors0 == [i \in 1..Len(items) |->
                        IF Truthy(CacheGet(c, cacheKey(items[i])))
                        THEN CacheGet(c, cacheKey(items[i])) ELSE Hole]
        uTexts == [j \in 1..Len(uIdx) |-> items[uIdx[j]]]
        wr == [IdleWorker EXCEPT !.pc = "next", !.start = b.start, !.items = items,
                                 !.vectors = vectors0, !.uTexts = uTexts, !.uIdx = uIdx]
        S1 == [S EXCEPT !.q = shift(S.q).rest, !.ws[w] = wr]
    IN IF uTexts = <<>>
       THEN [S1 EXCEPT !.op = Deliver(S1.op, b.start, vectors0)]
       ELSE BeginAttempt([S1 EXCEPT !.ws[w].attempt = 1, !.op.logical = @ + 1], w, now)

Concurrency_Unbounded(maxConcurrency, n) == Min(Max(MaxConcurrency, 1), n)

\* The number of workers runWithConcurrency launches.
Concurrency(maxConcurrency, n) == Min(maxConcurrency, n)

\* runWorker's loop head: take the next batch, or end.
runWorker(S, w, c, now) ==
    IF Len(S.q) > 0
    THEN embedTextsChunk(S, w, c, now)
    ELSE [S EXCEPT !.ws[w] = IdleWorker]

\* runWithConcurrency's launch loop: runWorker() is called for each of the
\* `concurrency` workers in turn, each running up to its first suspension.
RECURSIVE runWithConcurrency(_, _, _, _, _)
runWithConcurrency(S, w, concurrency, c, now) ==
    IF w > concurrency THEN S
    ELSE runWithConcurrency(runWorker(S, w, c, now), w + 1, concurrency, c, now)

\* embedChunks after embedBatch resolved with these embeddings: each chunk
\* is parsed with SEBIChunkSchema, whose embedding is optional (a hole reads
\* as undefined) and otherwise of length VECTOR_SIZE.
embedChunks(embeddings) ==
    IF \E i \in 1..Len(embeddings) :
           embeddings[i] # Hole /\ embeddings[i].len # VECTOR_SIZE
    THEN "rejected"
    ELSE "resolved"

\* results.map in embedBatch (map skips holes, so only a slot that holds a
\* falsy value makes the callback throw), then the embedChunks that awaits.
Settle(o) ==
    LET falsy == {i \in 1..Len(o.results) :
                     o.results[i] # Hole /\ ~Truthy(o.results[i])}
    IN IF falsy # {}
       THEN [o EXCEPT !.status = "rejected", !.chunks = "rejected",
                       !.error = MissingIndexError(CHOOSE i \in falsy : \A j \in falsy : i <= j)]
       ELSE [o EXCEPT !.status = "resolved", !.chunks = embedChunks(o.results)]

AllIdle(ws) == \A w \in Workers : ws[w].pc = "idle"

\* Promise.all(workers) settles the call once every worker has ended.
SettleIfDone(S) ==
    IF S.op.status = "running" /\ AllIdle(S.ws)
    THEN [S EXCEPT !.op = Settle(S.op)]
    ELSE S

Reject(o, err) ==
    IF o.status = "running"
    THEN [o EXCEPT !.status = "rejected", !.error = err,
                   !.chunks = IF o.kind = "embedBatch" THEN "rejected" ELSE @]
    ELSE o

----------------------------------------------------------------------------
(* EmbeddingGenerator: initial state and actions *)

EnvInit == [failures |-> 0, flaky |-> 0, short |-> 0, ticks |-> 0, expiries |-> 0]

Configs ==
    [maxConcurrency : 0..MaxConcurrency,
     batchSize : 1..MaxBatchSize,
     rateLimitPerMinute : 1..MaxRateLimit,
     vectorLen : VecLens]

EmbedIdle ==
    /\ cache = <<>>
    /\ requestTimestamps = <<>>
    /\ clock = 0
    /\ queue = <<>>
    /\ workers = [w \in Workers |-> IdleWorker]
    /\ op = NoOp
    /\ prev = NoPrev
    /\ env = EnvInit

EmbedInit ==
    /\ cfg \in Configs
    /\ EmbedIdle

BatchInputs ==
    UNION {[1..n -> TextSet] : n \in 0..MaxTexts}
        \cup {<<PaddedText>>, <<"a", PaddedText>>, <<PaddedText, "a", "b">>}
BatchKinds == {"embedBatch"}

\* The caller makes one public call at a time and starts the next one when
\* nothing of the previous one is still running.  A client is followed
\* through its embedText calls up to and including its first batch call.
Quiet ==
    /\ AllIdle(workers)
    /\ op.status # "running"
    /\ op.kind \notin BatchKinds

CanCall == Quiet /\ op.seq < MaxOps

Commit(S) ==
    /\ requestTimestamps' = S.ts
    /\ queue' = S.q
    /\ workers' = S.ws
    /\ op' = S.op

Here(o) == [ts |-> requestTimestamps, q |-> queue, ws |-> workers, op |-> o]

\* A new public call starts: the previous one is summarised.
Begin == prev' = Summary(op)

\* embedText(text), up to its first suspension.
EmbedText(text) ==
    /\ CanCall
    /\ LET trimmed == Trim(text)
           key == cacheKey(trimmed)
           cached == CacheGet(cache, key)
           o == NewOp("embedText", <<text>>, op.seq + 1)
           wr == [IdleWorker EXCEPT !.items = <<trimmed>>, !.uTexts = <<trimmed>>,
                                    !.uIdx = <<1>>, !.vectors = <<Hole>>, !.attempt = 1]
           S0 == [Here([o EXCEPT !.logical = 1]) EXCEPT !.ws[1] = wr]
       IN IF trimmed = ""
          THEN Commit(Here(Reject(o, EmptyTextError)))
          ELSE IF Truthy(cached)
          THEN Commit(Here([o EXCEPT !.status = "resolved", !.results = <<cached>>]))
          ELSE Commit(BeginAttempt(S0, 1, clock))
    /\ Begin
    /\ UNCHANGED <<cfg, cache, clock, env, chunkVars, searchVars, corpusVars>>

\* embedChunks(chunks with these contents) and the embedBatch(texts) it
\* awaits, up to the first suspension.
EmbedBatch(texts) ==
    /\ CanCall
    /\ LET o == [NewOp("embedBatch", texts, op.seq + 1)
                    EXCEPT !.misses = UncachedIndices(texts, cache)]
           batches == createBatches(texts, cfg.batchSize)
           concurrency == Concurrency(cfg.maxConcurrency, Len(batches))
           S0 == [Here(o) EXCEPT !.q = batches]
           S1 == runWithConcurrency(S0, 1, concurrency, cache, clock)
       IN IF Len(texts) = 0
          THEN Commit(Here([o EXCEPT !.status = "resolved", !.chunks = "resolved"]))
          ELSE Commit(SettleIfDone(S1))
    /\ Begin
    /\ UNCHANGED <<cfg, cache, clock, env, chunkVars, searchVars, corpusVars>>

RECURSIVE CacheFill(_, _, _)
CacheFill(c, fetched, j) ==
    IF j > Len(fetched) THEN c
    ELSE CacheFill(setCacheEntry(c, cacheKey(fetched[j].of), fetched[j]), fetched, j + 1)

\* ensureVectorSize: whether it logs a warning for this vector.
ensureVectorSize(vector) == vector.len # VECTOR_SIZE

\* The provider answers an embedDocuments call with vectors of length n,
\* one per text sent ("full") or one fewer ("short"); embedTextsChunk and
\* the worker callback then run to the next suspension.
DocumentsResolve(w, shape) ==
    /\ workers[w].pc = "inflight"
    /\ op.kind \in BatchKinds
    /\ shape = "short" => env.short < MaxShort
    /\ LET wr == workers[w]
           n == cfg.vectorLen
           k == IF shape = "short" THEN Len(wr.uTexts) - 1 ELSE Len(wr.uTexts)
           fetched == [j \in 1..k |-> Vec(wr.uTexts[j], n)]
           vectors == [i \in 1..Len(wr.vectors) |->
                         IF \E j \in 1..k : wr.uIdx[j] = i
                         THEN fetched[CHOOSE j \in 1..k : wr.uIdx[j] = i]
                         ELSE wr.vectors[i]]
           falsy == {i \in 1..Len(vectors) : vectors[i] # Hole /\ ~Truthy(vectors[i])}
           warned == \E j \in 1..k : ensureVectorSize(fetched[j])
           S0 == Here([op EXCEPT !.warned = @ \/ warned])
       IN /\ cache' = CacheFill(cache, fetched, 1)
          /\ env' = [env EXCEPT !.short = IF shape = "short" THEN @ + 1 ELSE @]
          /\ IF falsy # {}
             THEN Commit(SettleIfDone(
                      [S0 EXCEPT !.ws[w] = IdleWorker,
                                 !.op = Reject(@, MissingEntryError(
                                            CHOOSE i \in falsy : \A j \in falsy : i <= j))]))
             ELSE Commit([S0 EXCEPT !.ws[w] = [wr EXCEPT !.pc = "next", !.vectors = vectors],
                                    !.op = Deliver(@, wr.start, vectors)])
    /\ UNCHANGED <<cfg, clock, prev, chunkVars, searchVars, corpusVars>>

\* The provider answers an embedQuery call; embedText caches the vector,
\* checks its size and returns it.
QueryResolve(w) ==
    /\ workers[w].pc = "inflight"
    /\ op.kind = "embedText"
    /\ LET wr == workers[w]
           embedding == Vec(wr.uTexts[1], cfg.vectorLen)
       IN /\ cache' = setCacheEntry(cache, cacheKey(wr.uTexts[1]), embedding)
          /\ Commit([Here([op EXCEPT !.status = "resolved", !.results = <<embedding>>,
                                      !.warned = ensureVectorSize(embedding)])
                        EXCEPT !.ws[w] = IdleWorker])
    /\ UNCHANGED <<cfg, clock, prev, env, chunkVars, searchVars, corpusVars>>

\* The provider call fails: executeWithRetry records the error and starts
\* the backoff delay.
ProviderReject(w) ==
    /\ workers[w].pc = "inflight"
    /\ workers[w].attempt = 1 => env.flaky < MaxFlakyCalls
    /\ LET wr == workers[w]
           err == ProviderError(env.failures + 1)
       IN workers' = [workers EXCEPT ![w] =
              [wr EXCEPT !.pc = "backoff", !.lastError = err, !.errs = Append(@, err),
                         !.wakeAt = clock + Pow2(wr.attempt) * BACKOFF_BASE_MS]]
    /\ env' = [env EXCEPT !.failures = @ + 1,
                          !.flaky = IF workers[w].attempt = 1 THEN @ + 1 ELSE @]
    /\ UNCHANGED <<cfg, cache, requestTimestamps, clock, queue, op, prev, chunkVars, searchVars, corpusVars>>

Sleeping(w) == workers[w].pc \in {"ratewait", "backoff"}
NextTimer(w) ==
    /\ Sleeping(w)
    /\ \A v \in Workers : Sleeping(v) => workers[w].wakeAt <= workers[v].wakeAt

\* The rate limiter's delay ends: the timestamp is pushed and the provider
\* is invoked.
RateLimitWake(w) ==
    /\ NextTimer(w)
    /\ workers[w].pc = "ratewait"
    /\ LET now == Max(clock, workers[w].wakeAt)
           wr == workers[w]
           S0 == Here(op)
       IN /\ clock' = now
          /\ Commit([S0 EXCEPT !.ts = enforceRateLimitResume(S0.ts, now),
                               !.ws[w] = [wr EXCEPT !.pc = "inflight"],
                               !.op = Invoked(@, wr.start, wr.uTexts)])
    /\ UNCHANGED <<cfg, cache, prev, env, chunkVars, searchVars, corpusVars>>

RetryExhausted_OneMore(attempt) == attempt > RETRY_ATTEMPTS

\* executeWithRetry's loop condition, read after attempt number `attempt`
\* has failed: no attempt is left.
RetryExhausted(attempt) == attempt >= RETRY_ATTEMPTS

\* executeWithRetry after a backoff delay: the next attempt, or the throw of
\* lastError when the attempts are used up.
executeWithRetry(S, w, now) ==
    LET wr == S.ws[w] IN
    IF RetryExhausted(wr.attempt)
    THEN [S EXCEPT !.ws[w] = IdleWorker,
                   !.op = IF @.status = "running"
                          THEN [Reject(@, wr.lastError) EXCEPT !.errs = wr.errs]
                          ELSE @]
    ELSE BeginAttempt([S EXCEPT !.ws[w] = [wr EXCEPT !.attempt = @ + 1, !.wakeAt = 0]], w, now)

BackoffWake(w) ==
    /\ NextTimer(w)
    /\ workers[w].pc = "backoff"
    /\ LET now == Max(clock, workers[w].wakeAt)
       IN /\ clock' = now
          /\ Commit(executeWithRetry(Here(op), w, now))
    /\ UNCHANGED <<cfg, cache, prev, env, chunkVars, searchVars, corpusVars>>

\* runWorker resumes after `await worker(next)`: next batch or end; the
\* call settles when the last worker ends.
WorkerNext(w) ==
    /\ workers[w].pc = "next"
    /\ Commit(SettleIfDone(runWorker(Here(op), w, cache, clock)))
    /\ UNCHANGED <<cfg, cache, clock, prev, env, chunkVars, searchVars, corpusVars>>

TickSteps == {ONE_MINUTE_MS + 1}

\* Time passes between two public calls (it matters only to a window that
\* holds timestamps; within a call the clock moves with the timers).
Tick(d) ==
    /\ Quiet
    /\ requestTimestamps # <<>>
    /\ env.ticks < MaxTicks
    /\ clock' = clock + d
    /\ env' = [env EXCEPT !.ticks = @ + 1]
    /\ UNCHANGED <<cfg, cache, requestTimestamps, queue, workers, op, prev, chunkVars, searchVars, corpusVars>>

\* The TTL of a cache entry runs out.
Expire(i) ==
    /\ Quiet
    /\ env.expiries < MaxExpiries
    /\ i \in 1..Len(cache)
    /\ cache' = CacheDel(cache, cache[i].key)
    /\ env' = [env EXCEPT !.expiries = @ + 1]
    /\ prev' = IF prev.kind = "embedText" /\ cacheKey(Trim(prev.text)) = cache[i].key
               THEN [prev EXCEPT !.lost = TRUE] ELSE prev
    /\ op' = IF op.kind = "embedText" /\ cacheKey(Trim(op.texts[1])) = cache[i].key
             THEN [op EXCEPT !.lost = TRUE] ELSE op
    /\ UNCHANGED <<cfg, requestTimestamps, clock, queue, workers, chunkVars, searchVars, corpusVars>>

----------------------------------------------------------------------------
(* Chunker (corpus/pdf-parser.ts).                                          *)
(* A document's content is a sequence of lines.  A line is known by what    *)
(* the patterns of extractSections make of it: a chapter heading, a heading *)
(* numbered N.M, a heading numbered N.M.P, or a line of text.  A line of    *)
(* text is one sentence; pos is its line number and tok its token count.    *)
(* A text (a string) is the sequence of its sentences and the separator     *)
(* they are joined with.                                                    *)

LineShapes == {"chapter", "n.m", "n.m.p", "text"}

Heading(shape, pos) == [shape |-> shape, pos |-> pos, tok |-> 0]
Sentence(pos, tok) == [shape |-> "text", pos |-> pos, tok |-> tok]

LinesAt(pos) ==
    {Heading(sh, pos) : sh \in LineShapes \ {"text"}}
        \cup {Sentence(pos, k) : k \in 1..MaxSentenceTokens}

Contents == UNION {{c \in [1..n -> UNION {LinesAt(p) : p \in 1..n}] :
                        \A p \in 1..n : c[p].pos = p} : n \in 1..MaxLines}

Text(sents, sep) == [sents |-> sents, sep |-> sep]

RECURSIVE SumTokens(_)
SumTokens(sents) ==
    IF sents = <<>> THEN 0 ELSE Head(sents).tok + SumTokens(Tail(sents))

\* countTokens: the tokenizer's count of a text (the tokens of its
\* sentences; a separator adds none).
countTokens(text) == SumTokens(text.sents)

threeLevelPrefix_Never(line) == FALSE

\* The regular expressions of extractSections, applied to a trimmed line.
chapterMatch(line) == line.shape = "chapter"
sectionMatch(line) == line.shape \in {"n.m", "n.m.p"}
threeLevelPrefix(line) == line.shape = "n.m.p"
subSectionMatch(line) == line.shape = "n.m.p"

\* The id and title a heading line is matched into; the label built from
\* them is `${id} ${title}`.
SectionId(line) == <<line.shape, line.pos>>
SectionTitle(line) == <<"title", line.pos>>

\* Group 1 of the expression a line was matched by: the section expression
\* captures a two-level number, which of a line "N.M.P title" is "N.M".
MatchedId(line, level) ==
    IF level = 2 /\ line.shape = "n.m.p" THEN <<"n.m", line.pos>> ELSE SectionId(line)

NewSection(line, level) ==
    [id |-> MatchedId(line, level), title |-> SectionTitle(line), content |-> <<>>,
     level |-> level, children |-> <<>>]

\* The node at a path of child positions in a forest, and the forest with
\* that node's content extended / with a child pushed to that node.
RECURSIVE AppendContent(_, _, _)
AppendContent(forest, path, sents) ==
    [i \in 1..Len(forest) |->
        IF i # Head(path) THEN forest[i]
        ELSE IF Len(path) = 1
        THEN [forest[i] EXCEPT !.content = @ \o sents]
        ELSE [forest[i] EXCEPT !.children = AppendContent(@, Tail(path), sents)]]

RECURSIVE PushChild(_, _, _)
PushChild(forest, path, node) ==
    IF path = <<>> THEN Append(forest, node)
    ELSE [i \in 1..Len(forest) |->
            IF i # Head(path) THEN forest[i]
            ELSE [forest[i] EXCEPT !.children = PushChild(@, Tail(path), node)]]

RECURSIVE ChildCount(_, _)
ChildCount(forest, path) ==
    IF path = <<>> THEN Len(forest)
    ELSE ChildCount(forest[Head(path)].children, Tail(path))

\* A null reference (currentChapter, currentSection, currentSubSection).
Null == <<>>

flushContent_NoSubSection(st) ==
    LET target == IF st.currentSection # Null THEN st.currentSection
                  ELSE st.currentChapter
    IN IF st.contentBuffer = <<>> THEN st
       ELSE [st EXCEPT !.sections = IF target = Null THEN @
                                    ELSE AppendContent(@, target, st.contentBuffer),
                       !.contentBuffer = <<>>]

\* flushContent: the buffered lines go to the deepest open node; with no
\* node open they are dropped.
flushContent(st) ==
    LET target == IF st.currentSubSection # Null THEN st.currentSubSection
                  ELSE IF st.currentSection # Null THEN st.currentSection
                  ELSE st.currentChapter
    IN IF st.contentBuffer = <<>> THEN st
       ELSE [st EXCEPT !.sections = IF target = Null THEN @
                                    ELSE AppendContent(@, target, st.contentBuffer),
                       !.contentBuffer = <<>>]

subSectionParent_Chapter(st) == st.currentChapter

\* Where a new sub-section is pushed: the open section, else the current
\* chapter, else (Null) the top level.
subSectionParent(st) ==
    IF st.currentSection # Null THEN st.currentSection ELSE st.currentChapter

\* One iteration of extractSections' loop over the lines.
extractLine(st0, line) ==
    IF chapterMatch(line)
    THEN LET st == flushContent(st0) IN
         [st EXCEPT !.sections = Append(@, NewSection(line, 1)),
                    !.currentChapter = <<Len(st.sections) + 1>>,
                    !.currentSection = Null,
                    !.currentSubSection = Null]
    ELSE IF sectionMatch(line) /\ ~threeLevelPrefix(line)
    THEN LET st == flushContent(st0)
             parent == st.currentChapter
         IN [st EXCEPT !.sections = PushChild(@, parent, NewSection(line, 2)),
                       !.currentSection = parent \o <<ChildCount(st.sections, parent) + 1>>,
                       !.currentSubSection = Null]
    ELSE IF subSectionMatch(line)
    THEN LET st == flushContent(st0)
             parent == subSectionParent(st)
         IN [st EXCEPT !.sections = PushChild(@, parent, NewSection(line, 3)),
                       !.currentSubSection = parent \o <<ChildCount(st.sections, parent) + 1>>]
    ELSE [st0 EXCEPT !.contentBuffer = Append(@, line)]

RECURSIVE extractLines(_, _)
extractLines(st, lines) ==
    IF lines = <<>> THEN flushContent(st)
    ELSE extractLines(extractLine(st, Head(lines)), Tail(lines))

extractSections(content) ==
    extractLines([sections |-> <<>>, currentChapter |-> Null, currentSection |-> Null,
                  currentSubSection |-> Null, contentBuffer |-> <<>>], content).sections

\* splitIntoSentences: the sentences of a text.
splitIntoSentences(sents) == sents

\* The overlap loop of splitByTokens: sentences are taken from the end of
\* the closed chunk while the tokens taken are fewer than `overlap`.
RECURSIVE overlapSentences(_, _, _, _)
overlapSentences(currentChunk, i, taken, overlap) ==
    IF i >= 1 /\ SumTokens(taken) < overlap
    THEN overlapSentences(currentChunk, i - 1, <<currentChunk[i]>> \o taken, overlap)
    ELSE taken

RECURSIVE splitLoop(_, _, _, _, _)
splitLoop(sentences, built, currentChunk, maxTokens, overlap) ==
    IF sentences = <<>>
    THEN IF Len(currentChunk) > 0 THEN Append(built, currentChunk) ELSE built
    ELSE LET sentence == Head(sentences)
             close == SumTokens(currentChunk) + sentence.tok > maxTokens
                          /\ Len(currentChunk) > 0
             seed == IF overlap > 0
                     THEN overlapSentences(currentChunk, Len(currentChunk), <<>>, overlap)
                     ELSE <<>>
         IN IF close
            THEN splitLoop(Tail(sentences), Append(built, currentChunk),
                           Append(seed, sentence), maxTokens, overlap)
            ELSE splitLoop(Tail(sentences), built,
                           Append(currentChunk, sentence), maxTokens, overlap)

\* splitByTokens: the chunks of a text, each the sentences joined by " ",
\* in the order they were closed.
splitByTokens_Reversed(sents, maxTokens, overlap) ==
    LET built == splitLoop(splitIntoSentences(sents), <<>>, <<>>, maxTokens, overlap)
    IN [i \in 1..Len(built) |-> Text(built[Len(built) + 1 - i], " ")]
splitByTokens(sents, maxTokens, overlap) ==
    LET built == splitLoop(splitIntoSentences(sents), <<>>, <<>>, maxTokens, overlap)
    IN [i \in 1..Len(built) |-> Text(built[i], " ")]

Label_TitleOnly(section) == <<section.title>>
Label(section) == <<section.id, section.title>>

RECURSIVE flattenSections(_, _)
flattenSections(sections, parentPath) ==
    IF sections = <<>> THEN <<>>
    ELSE LET section == Head(sections)
             currentPath == Append(parentPath, Label(section))
             own == IF section.content # <<>>
                    THEN <<[content |-> Text(section.content, "\n"), hierarchy |-> currentPath]>>
                    ELSE <<>>
         IN own \o flattenSections(section.children, currentPath)
                \o flattenSections(Tail(sections), parentPath)

ChunkId(documentId, chunkIndex) == <<documentId, "-chunk-", chunkIndex>>

\* The chunk literal chunkDocument builds at the counter value chunkIndex;
\* tokens is the count the caller has computed.
MakeChunk(document, chunkIndex, text, tokens, hierarchy) ==
    [chunk_id |-> ChunkId(document.id, chunkIndex),
     document_id |-> document.id,
     chunk_index |-> chunkIndex,
     content |-> text,
     tokens |-> tokens,
     section_hierarchy |-> hierarchy]

\* chunkIndex after a candidate: chunkIndex++ stands inside the branch that
\* pushes the chunk.
chunkIndexAfter_Always(chunkIndex, pushed) == chunkIndex + 1
chunkIndexAfter(chunkIndex, pushed) ==
    IF pushed THEN chunkIndex + 1 ELSE chunkIndex

\* chunkDocument's loop over the text chunks of one split; tokens[i] is the
\* count taken of texts[i] and keeps[i] the outcome of the size test on it.
\* acc is <<chunks, chunkIndex>>.
tooSmall_Never(tokens, minTokens, candidates) == FALSE

\* "Skip chunks that are too small (unless it's the only chunk)": the test
\* chunkDocument makes of a passage among `candidates` candidates, written
\* tokens < minTokens && n > 1 or, negated, tokens >= minTokens || n === 1.
tooSmall(tokens, minTokens, candidates) == tokens < minTokens /\ candidates # 1

RECURSIVE pushTexts(_, _, _, _, _, _)
pushTexts(document, acc, texts, tokens, keeps, hierarchy) ==
    IF texts = <<>> THEN acc
    ELSE pushTexts(document,
                   [chunks |-> IF Head(keeps)
                               THEN Append(acc.chunks,
                                           MakeChunk(document, acc.chunkIndex, Head(texts),
                                                     Head(tokens), hierarchy))
                               ELSE acc.chunks,
                    chunkIndex |-> chunkIndexAfter(acc.chunkIndex, Head(keeps))],
                   Tail(texts), Tail(tokens), Tail(keeps), hierarchy)

\* const blockTokens = countTokens(block.content)
blockTokensOf_Sentences(block) == Len(block.content.sents)
blockTokensOf(block) == countTokens(block.content)

RECURSIVE chunkBlocks(_, _, _, _, _)
chunkBlocks(document, acc, blocks, n, o) ==
    IF blocks = <<>> THEN acc
    ELSE LET block == Head(blocks)
             blockTokens == blockTokensOf(block)
             textChunks == splitByTokens(block.content.sents, o.maxTokens, o.overlap)
             tokens == [i \in 1..Len(textChunks) |-> countTokens(textChunks[i])]
             keepWhole == <<~tooSmall(blockTokens, o.minTokens, n)>>
             keepPiece == [i \in 1..Len(textChunks) |->
                              ~tooSmall(tokens[i], o.minTokens, Len(textChunks))]
             next == IF blockTokens <= o.maxTokens
                     THEN pushTexts(document, acc, <<block.content>>, <<blockTokens>>,
                                    keepWhole, block.hierarchy)
                     ELSE pushTexts(document, acc, textChunks, tokens, keepPiece,
                                    block.hierarchy)
         IN chunkBlocks(document, next, Tail(blocks), n, o)

chunkDocument(document, o) ==
    LET sections == extractSections(document.content)
        textChunks == splitByTokens(SelectSeq(document.content, LAMBDA l : l.shape = "text"),
                                    o.maxTokens, o.overlap)
        tokens == [i \in 1..Len(textChunks) |-> countTokens(textChunks[i])]
        keep == [i \in 1..Len(textChunks) |->
                    ~tooSmall(tokens[i], o.minTokens, Len(textChunks))]
        contentBlocks == flattenSections(sections, <<>>)
        start == [chunks |-> <<>>, chunkIndex |-> 0]
    IN IF Len(sections) = 0
       THEN pushTexts(document, start, textChunks, tokens, keep, <<>>).chunks
       ELSE chunkBlocks(document, start, contentBlocks, Len(contentBlocks), o).chunks

\* const { maxTokens = 512, minTokens = 128, overlap = 50 } = options
DEFAULT_MAX_TOKENS == 512
DEFAULT_MIN_TOKENS == 128
DEFAULT_OVERLAP == 50
DefaultOptions ==
    [maxTokens |-> DEFAULT_MAX_TOKENS, minTokens |-> DEFAULT_MIN_TOKENS,
     overlap |-> DEFAULT_OVERLAP]

ChunkOptions ==
    [maxTokens : 2..MaxTokensOpt, minTokens : 0..MaxMinTokensOpt, overlap : 0..MaxOverlapOpt]
        \cup {DefaultOptions}

NoDocument == [id |-> "", content |-> <<>>]
NotExtracted == [done |-> FALSE, sections |-> <<>>]

ChunkIdle ==
    /\ doc = NoDocument
    /\ opts = [maxTokens |-> 0, minTokens |-> 0, overlap |-> 0]
    /\ chunks = <<>>
    /\ chunked = FALSE
    /\ extracted = NotExtracted

SearchIdle ==
    /\ store = <<>>
    /\ query = <<>>
    /\ searchLimit = 0
    /\ semanticHits = <<>>
    /\ keywordHits = <<>>
    /\ fused = <<>>
    /\ searchPc = "idle"

\* No collection yet and no call made.
NoCall == [kind |-> "none", args |-> <<>>, ok |-> TRUE, value |-> <<>>, error |-> "",
           warned |-> 0, created |-> <<>>, seq |-> 0,
           before |-> [kind |-> "none", ok |-> TRUE, value |-> <<>>]]
EmptyStore == [collection |-> FALSE, indexes |-> {}, points |-> <<>>]
CorpusIdle ==
    /\ qdrant = EmptyStore
    /\ requests = <<>>
    /\ call = NoCall

ChunkInit ==
    /\ doc \in [id : {"doc"}, content : Contents]
    /\ opts \in ChunkOptions
    /\ chunks = <<>>
    /\ chunked = FALSE
    /\ extracted = NotExtracted
    /\ cfg = [maxConcurrency |-> DEFAULT_MAX_CONCURRENCY, batchSize |-> MaxBatchSize,
              rateLimitPerMinute |-> MaxRateLimit, vectorLen |-> VECTOR_SIZE]
    /\ EmbedIdle
    /\ SearchIdle
    /\ CorpusIdle

\* chunks = chunkDocument(doc, opts)
ChunkDocument ==
    /\ ~chunked
    /\ chunks' = chunkDocument(doc, opts)
    /\ chunked' = TRUE
    /\ UNCHANGED <<doc, opts, extracted, embedVars, searchVars, corpusVars>>

\* const sections = extractSections(doc.content)
ExtractSections ==
    /\ ~extracted.done
    /\ extracted' = [done |-> TRUE, sections |-> extractSections(doc.content)]
    /\ UNCHANGED <<doc, opts, chunks, chunked, embedVars, searchVars, corpusVars>>

ChunkNext == ChunkDocument \/ ExtractSections

ChunkSpec == ChunkInit /\ [][ChunkNext]_vars

----------------------------------------------------------------------------
(* Retrieval (corpus/qdrant-client.ts).                                     *)
(* An id is a string, kept as the sequence of its characters.  A text is    *)
(* the sequence of its words; a word is the term it lowercases to and       *)
(* whether it is written in capitals.  A search result is                   *)
(* [document |-> [id], chunk |-> [chunk_id, content]]; the score a ranked   *)
(* list carries with a result is not read by the fusion and is left out.    *)
(* A fused score is an exact fraction, kept as its multiple of ScoreScale.  *)
(* Store calls succeed, every payload is well formed, and the store does    *)
(* not change while one hybridSearch runs.                                  *)

\* hybridSearch(query, semanticEmbedding, limit = 5, filters)
DEFAULT_LIMIT == 5

\* The (document id, chunk id) of the points, in scroll order.  chunk_id is
\* the point id, so no two points share it.
StoreIds ==
    << <<<<"a">>, <<"d">>>>,
       <<<<"a", "-", "b">>, <<"e">>>>,
       <<<<"a">>, <<"b", "-", "c">>>>,
       <<<<"a", "-", "b">>, <<"c">>>> >>

Terms == {"ter", "nav"}
Words == {w \in [term : Terms, upper : BOOLEAN] : w.upper => w.term = "ter"}
Texts == UNION {[1..n -> Words] : n \in 0..MaxWords}

\* mapHitToResult of a point with a well-formed payload.
Result(documentId, chunkId, content) ==
    [document |-> [id |-> documentId],
     chunk |-> [chunk_id |-> chunkId, content |-> content]]

SearchResults == {Result(StoreIds[i][1], StoreIds[i][2], <<>>) : i \in 1..Len(StoreIds)}

Elements(seq) == {seq[i] : i \in 1..Len(seq)}

\* The sequences of at most n distinct members of a set.
Rankings(set, n) ==
    UNION {{r \in [1..k -> set] : \A i, j \in 1..k : i # j => r[i] # r[j]} : k \in 0..n}

\* Array.prototype.slice(0, n)
slice(seq, n) == SubSeq(seq, 1, Min(n, Len(seq)))

\* const key = `${result.document.id}-${result.chunk.chunk_id}`
Key(result) == result.document.id \o <<"-">> \o result.chunk.chunk_id

RECURSIVE ScaleUpTo(_)
ScaleUpTo(n) == IF n = 0 THEN 1 ELSE (RRF_K + n) * ScaleUpTo(n - 1)

\* Every 1 / (RRF_K + index + 1) with index < MaxHits is a whole multiple
\* of 1 / ScoreScale.
ScoreScale == ScaleUpTo(MaxHits)

\* const increment = 1 / (RRF_K + index + 1)
Increment(index) == ScoreScale \div (RRF_K + index + 1)

\* One iteration of the inner forEach: scores is the Map, in insertion
\* order.
accumulate(scores, result, index) ==
    LET key == Key(result)
        existing == {i \in 1..Len(scores) : scores[i].key = key}
    IN IF existing # {}
       THEN [i \in 1..Len(scores) |->
                IF i \in existing
                THEN [scores[i] EXCEPT !.score = @ + Increment(index)]
                ELSE scores[i]]
       ELSE Append(scores, [key |-> key, result |-> result, score |-> Increment(index)])

RECURSIVE accumulateResults(_, _, _)
accumulateResults(scores, results, index) ==
    IF index >= Len(results) THEN scores
    ELSE accumulateResults(accumulate(scores, results[index + 1], index), results, index + 1)

RECURSIVE accumulateSets(_, _)
accumulateSets(scores, resultSets) ==
    IF resultSets = <<>> THEN scores
    ELSE accumulateSets(accumulateResults(scores, Head(resultSets), 0), Tail(resultSets))

\* .sort((a, b) => b.score - a.score): descending and stable.
insertByScore(sorted, entry) ==
    LET k == Cardinality({i \in 1..Len(sorted) : sorted[i].score >= entry.score})
    IN SubSeq(sorted, 1, k) \o <<entry>> \o SubSeq(sorted, k + 1, Len(sorted))

RECURSIVE sortByScore(_)
sortByScore(entries) ==
    IF entries = <<>> THEN <<>>
    ELSE insertByScore(sortByScore(SubSeq(entries, 1, Len(entries) - 1)),
                       entries[Len(entries)])

reciprocalRankFusion(resultSets, limit) ==
    LET top == slice(sortByScore(accumulateSets(<<>>, resultSets)), limit)
    IN [i \in 1..Len(top) |->
           [document |-> top[i].result.document, chunk |-> top[i].result.chunk,
            score |-> top[i].score]]

\* tokenize: lowercased, split at whatever is not a letter or a digit.
tokenize(text) == [i \in 1..Len(text) |-> text[i].term]

\* computeBm25Score is 0 when the passage or the query has no token or the
\* passage holds no query term; otherwise it is a sum of positive products
\* (idf = log(x + 1) with x > 0), one per query term the passage holds.
\* Only this sign is modelled.
bm25Positive(docTokens, queryTokens) ==
    /\ docTokens # <<>>
    /\ queryTokens # <<>>
    /\ Elements(docTokens) \cap Elements(queryTokens) # {}

IndexOf(seq, x) == CHOOSE i \in 1..Len(seq) : seq[i] = x

\* keywordSearch: what it can return.  A blank query returns the
\* candidates as scrolled.  Otherwise every candidate is scored and the
\* list sorted by score, descending and stable: passages of score 0 come
\* last, in scroll order; passages of positive score come first, in the
\* order of their scores, which is left open.
keywordSearch(candidates, q, limit) ==
    IF q = <<>> THEN {slice(candidates, limit)}
    ELSE LET queryTokens == tokenize(q)
             positive(c) == bm25Positive(tokenize(c.chunk.content), queryTokens)
             sorted == {p \in Rankings(Elements(candidates), Len(candidates)) :
                          /\ Len(p) = Len(candidates)
                          /\ \A i, j \in 1..Len(p) :
                                (i < j /\ ~positive(p[i])) =>
                                   /\ ~positive(p[j])
                                   /\ IndexOf(candidates, p[i]) < IndexOf(candidates, p[j])}
         IN {slice(p, limit) : p \in sorted}

\* Math.max(limit * 2, 10)
overfetch(limit) == Max(limit * OVERFETCH_FACTOR, MIN_OVERFETCH)

Stores ==
    UNION {{st \in [1..n -> {Result(StoreIds[i][1], StoreIds[i][2], t) :
                                 i \in 1..n, t \in Texts}] :
               \A i \in 1..n : st[i].chunk.chunk_id = StoreIds[i][2]} : n \in 0..MaxStore}

IdleConfig ==
    [maxConcurrency |-> DEFAULT_MAX_CONCURRENCY, batchSize |-> MaxBatchSize,
     rateLimitPerMinute |-> MaxRateLimit, vectorLen |-> VECTOR_SIZE]

\* hybridSearch is called on a store.
HybridInit ==
    /\ store \in Stores
    /\ query \in Texts
    /\ searchLimit \in {1, DEFAULT_LIMIT}
    /\ semanticHits = <<>>
    /\ keywordHits = <<>>
    /\ fused = <<>>
    /\ searchPc = "semantic"
    /\ cfg = IdleConfig
    /\ EmbedIdle
    /\ ChunkIdle
    /\ CorpusIdle

\* reciprocalRankFusion is handed two ranked lists.
FuseInit ==
    /\ store = <<>>
    /\ query = <<>>
    /\ searchLimit \in 0..MaxLimit
    /\ semanticHits \in Rankings(SearchResults, MaxHits)
    /\ keywordHits \in Rankings(SearchResults, MaxHits)
    /\ fused = <<>>
    /\ searchPc = "fuse"
    /\ cfg = IdleConfig
    /\ EmbedIdle
    /\ ChunkIdle
    /\ CorpusIdle

\* semanticSearch: the vector store ranks the points by similarity to the
\* query embedding, in an order of its own, and returns the first `limit`.
SemanticSearch ==
    /\ searchPc = "semantic"
    /\ \E ranked \in Rankings(Elements(store), Len(store)) :
          /\ Len(ranked) = Len(store)
          /\ semanticHits' = slice(ranked, overfetch(searchLimit))
    /\ searchPc' = "keyword"
    /\ UNCHANGED <<store, query, searchLimit, keywordHits, fused, embedVars, chunkVars, corpusVars>>

KeywordSearch ==
    /\ searchPc = "keyword"
    /\ keywordHits' \in keywordSearch(store, query, overfetch(searchLimit))
    /\ searchPc' = "fuse"
    /\ UNCHANGED <<store, query, searchLimit, semanticHits, fused, embedVars, chunkVars, corpusVars>>

\* const fused = this.reciprocalRankFusion([semanticHits, keywordHits], limit)
Fuse ==
    /\ searchPc = "fuse"
    /\ fused' = reciprocalRankFusion(<<semanticHits, keywordHits>>, searchLimit)
    /\ searchPc' = "done"
    /\ UNCHANGED <<store, query, searchLimit, semanticHits, keywordHits, embedVars, chunkVars, corpusVars>>

HybridNext == SemanticSearch \/ KeywordSearch \/ Fuse

HybridSpec == HybridInit /\ [][HybridNext]_vars

FuseNext == Fuse

FuseSpec == FuseInit /\ [][FuseNext]_vars

Init == EmbedInit /\ ChunkIdle /\ SearchIdle /\ CorpusIdle

Next ==
    \/ \E t \in TextSet \cup {PaddedText, BlankText} : EmbedText(t)
    \/ \E ts \in BatchInputs : EmbedBatch(ts)
    \/ \E w \in Workers, shape \in {"full", "short"} : DocumentsResolve(w, shape)
    \/ \E w \in Workers : QueryResolve(w)
    \/ \E w \in Workers : ProviderReject(w)
    \/ \E w \in Workers : RateLimitWake(w)
    \/ \E w \in Workers : BackoffWake(w)
    \/ \E w \in Workers : WorkerNext(w)
    \/ \E d \in TickSteps : Tick(d)
    \/ \E i \in 1..MaxTexts : Expire(i)

Spec == Init /\ [][Next]_vars

\* The embedding client restricted to a tight rate limit, with the timers
\* of the event loop firing: a due timer is eventually run.
FairInit ==
    /\ cfg \in {c \in Configs : c.rateLimitPerMinute = 1 /\ c.vectorLen = VECTOR_SIZE
                                 /\ c.batchSize = 1}
    /\ EmbedIdle
    /\ ChunkIdle
    /\ SearchIdle
    /\ CorpusIdle

FairSpec ==
    /\ FairInit
    /\ [][Next]_vars
    /\ \A w \in Workers : WF_vars(RateLimitWake(w)) /\ WF_vars(BackoffWake(w))

----------------------------------------------------------------------------
(* Claims about the embedding client *)

InFlight == {w \in Workers : workers[w].pc = "inflight"}
IsBatch == op.kind = "embedBatch"
IsText == op.kind = "embedText"

\* C1: embedBatch returns exactly one vector per input text, at the index
\* of that text, for every batch size, concurrency limit, completion order
\* and mix of cached and uncached texts.
C1_OneVectorPerText ==
    (IsBatch /\ op.status = "resolved") =>
        /\ Len(op.results) = Len(op.texts)
        /\ \A i \in 1..Len(op.texts) : op.results[i] = Vec(op.texts[i], cfg.vectorLen)

\* C2 (as stated): of the first two embedText calls of a client, with no
\* cache entry expired, two calls with identical text make one provider call
\* in all and return the same vector, and two calls with different texts
\* make two provider calls.  (A provider call is one executeWithRetry
\* invocation, whatever the number of its attempts.)
C2_Original ==
    (IsText /\ op.seq = 2 /\ op.status = "resolved" /\ prev.kind = "embedText" /\ ~prev.lost) =>
        /\ prev.text = op.texts[1] =>
              prev.logical + op.logical = 1 /\ op.results[1] = prev.result
        /\ prev.text # op.texts[1] => prev.logical + op.logical = 2

\* C2 (amended): the same, with "identical" and "different" read after
\* trimming: texts equal after trimming make one provider call in all (one
\* provider invocation when no attempt failed) and return the same vector;
\* texts that differ after trimming make two.
C2_CacheByTrimmedText ==
    (IsText /\ op.seq = 2 /\ op.status = "resolved" /\ prev.kind = "embedText" /\ ~prev.lost) =>
        /\ Trim(prev.text) = Trim(op.texts[1]) =>
              /\ prev.logical + op.logical = 1
              /\ op.calls = 0
              /\ op.results[1] = prev.result
        /\ Trim(prev.text) # Trim(op.texts[1]) =>
              /\ prev.logical + op.logical = 2
              /\ op.calls >= 1
              /\ env.failures = 0 => op.calls = 1

C2_Witness ==
    /\ IsText /\ op.seq = 2 /\ op.status = "resolved"
    /\ prev.kind = "embedText" /\ ~prev.lost
    /\ prev.text # op.texts[1] /\ Trim(prev.text) = Trim(op.texts[1])
    /\ op.logical = 0 /\ op.results[1] = prev.result

AAB == <<"a", "a", "b">>

\* C3 (as stated): embedBatch([a, a, b]) on a fresh cache makes exactly one
\* provider batch call, carrying [a, b], and returns [v_a, v_a, v_b]
\* (stated for one batch, at least one worker, and a provider that answers
\* every text it is sent).
C3_Original ==
    (/\ IsBatch /\ op.seq = 1 /\ op.texts = AAB /\ op.status = "resolved"
     /\ cfg.batchSize >= 3 /\ cfg.maxConcurrency >= 1 /\ env.short = 0) =>
        /\ op.sent = {<<0, <<"a", "b">>>>}
        /\ op.results = [i \in 1..3 |-> Vec(AAB[i], cfg.vectorLen)]

\* C3 (amended): embedBatch([a, a, b]) on a fresh cache, with batchSize >= 3
\* and maxConcurrency >= 1, makes exactly one provider batch call, and every
\* attempt of it carries [a, a, b]: a text that occurs twice in a batch is
\* sent twice.  The vectors the provider returns come back at indices
\* 0, 1, 2: [v_a, v_a, v_b] when it returns all three.
C3_DuplicatesAreSent ==
    (IsBatch /\ op.seq = 1 /\ op.texts = AAB /\ cfg.batchSize >= 3 /\ cfg.maxConcurrency >= 1) =>
        /\ op.logical = 1
        /\ op.calls >= 1
        /\ op.sent = {<<0, AAB>>}
        /\ op.status = "resolved" =>
              /\ env.failures = 0 => op.calls = 1
              /\ \A i \in 1..3 : op.results[i] \in {Hole, Vec(AAB[i], cfg.vectorLen)}
              /\ env.short = 0 => op.results = [i \in 1..3 |-> Vec(AAB[i], cfg.vectorLen)]

C3_Witness ==
    /\ IsBatch /\ op.seq = 1 /\ op.texts = AAB /\ cfg.batchSize >= 3
    /\ op.status = "resolved" /\ op.calls = 1 /\ op.sent = {<<0, AAB>>}
    /\ op.results = [i \in 1..3 |-> Vec(AAB[i], cfg.vectorLen)]

\* The timestamps recorded less than a minute before `now`.
InWindow(ts, now) == {i \in 1..Len(ts) : now - ts[i] < ONE_MINUTE_MS}

\* C4: the number of provider calls admitted by the rate limiter within any
\* one-minute window never exceeds rateLimitPerMinute.
C4_RateLimitHolds ==
    Cardinality(InWindow(requestTimestamps, clock)) <= cfg.rateLimitPerMinute

C5_Step ==
    \A w \in Workers :
        (workers[w].pc = "ratewait" /\ workers'[w].pc # "ratewait") =>
            /\ workers'[w].pc = "inflight"
            /\ workers'[w].uTexts = workers[w].uTexts
            /\ requestTimestamps' = Append(requestTimestamps, clock')
            /\ op'.calls = op.calls + 1
            /\ <<workers[w].start, workers[w].uTexts>> \in op'.sent

\* C5: a provider call that finds the rate-limit window full is delayed,
\* not lost: it eventually proceeds, and when it does it records exactly
\* one timestamp and invokes the provider exactly once.
C5_DelayedNotLost ==
    /\ [][C5_Step]_vars
    /\ \A w \in Workers : (workers[w].pc = "ratewait") ~> (workers[w].pc = "inflight")

C5_Witness ==
    \E w \in Workers :
        /\ workers[w].pc = "inflight"
        /\ workers[w].wakeAt > 0
        /\ clock >= workers[w].wakeAt
        /\ Len(requestTimestamps) > 0
        /\ requestTimestamps[Len(requestTimestamps)] = clock

\* C6: during one embedBatch call the number of provider batch calls in
\* flight never exceeds maxConcurrency.
C6_BoundedInFlight ==
    IsBatch => Cardinality(InFlight) <= cfg.maxConcurrency

C6_Witness ==
    /\ IsBatch
    /\ cfg.maxConcurrency >= 1
    /\ Cardinality(InFlight) = cfg.maxConcurrency
    /\ Len(queue) > 0

\* C7: each provider call is attempted at most 5 times; the first
\* successful attempt ends the retries and hands over its result; when all
\* 5 attempts fail the call rejects with the error of the fifth attempt.
C7_RetryFiveTimes ==
    /\ \A w \in Workers :
          LET wr == workers[w] IN
          /\ wr.attempt <= 5
          /\ wr.pc \in {"inflight", "ratewait"} => Len(wr.errs) = wr.attempt - 1
          /\ wr.pc = "backoff" =>
                /\ Len(wr.errs) = wr.attempt
                /\ wr.lastError = wr.errs[wr.attempt]
                /\ wr.wakeAt >= clock
          /\ (wr.pc = "next" /\ wr.attempt >= 1) =>
                /\ Len(wr.errs) = wr.attempt - 1
                /\ \A j \in 1..Len(wr.uIdx) :
                      wr.vectors[wr.uIdx[j]] \in {Hole, Vec(wr.uTexts[j], cfg.vectorLen)}
    /\ op.calls <= 5 * op.logical
    /\ (op.status = "rejected" /\ op.error.kind = "provider") =>
          /\ Len(op.errs) = 5
          /\ op.error = op.errs[5]
          /\ \A i, j \in 1..5 : i # j => op.errs[i] # op.errs[j]

C7_Witness ==
    /\ op.status = "rejected"
    /\ op.error.kind = "provider"
    /\ Len(op.errs) = 5
    /\ op.error = op.errs[5]
    /\ op.calls >= 5

\* C8: embedBatch rejects, and never returns an array with an unfilled
\* slot, whenever some input index received no vector after the batch plan
\* has run.
C8_MissingResultGuard ==
    (IsBatch /\ op.status = "resolved") =>
        \A i \in 1..Len(op.results) : op.results[i] # Hole

\* C9: a provider vector whose length differs from 3072 is warned about
\* but never fails the call: embed, embedBatch and embedChunks all resolve
\* and hand the vector back.
C9_SizeMismatchOnlyWarns ==
    /\ op.warned => op.status # "rejected" \/ op.error.kind = "provider"
    /\ (op.status = "resolved" /\ IsBatch) => op.chunks = "resolved"

----------------------------------------------------------------------------
(* Claims about the chunker *)

\* C10: the chunk_index values of the passages chunkDocument returns are
\* exactly 0..n-1 in emission order, whatever was dropped or split, and
\* each chunk_id is derived from (document id, ordinal) alone and is
\* unique within the document.
C10_ContiguousOrdinals ==
    chunked =>
        /\ \A i \in 1..Len(chunks) :
              /\ chunks[i].chunk_index = i - 1
              /\ chunks[i].chunk_id = ChunkId(doc.id, i - 1)
              /\ chunks[i].document_id = doc.id
        /\ \A i, j \in 1..Len(chunks) : i # j => chunks[i].chunk_id # chunks[j].chunk_id

\* A run in which a block was split, a piece under minTokens was dropped
\* between two emitted passages, and the passages lie under a heading.
C10_Witness ==
    /\ chunked
    /\ Len(chunks) >= 2
    /\ chunks[1].section_hierarchy # <<>>
    /\ \E i \in 1..Len(chunks) : chunks[i].content.sep = " "
    /\ \E p \in 1..Len(doc.content) :
          /\ doc.content[p].shape = "text"
          /\ p > chunks[1].content.sents[1].pos
          /\ p < chunks[Len(chunks)].content.sents[1].pos
          /\ \A i \in 1..Len(chunks) :
                \A k \in 1..Len(chunks[i].content.sents) : chunks[i].content.sents[k].pos # p

\* C11: the tokens field of every passage chunkDocument returns, emitted
\* verbatim from a block or produced by sentence splitting, equals the
\* tokenizer's count of the passage's content.
C11_TokensAreCounted ==
    chunked => \A i \in 1..Len(chunks) : chunks[i].tokens = countTokens(chunks[i].content)

\* A run that returned a block verbatim and a piece of a split block.
C11_Witness ==
    /\ chunked
    /\ \E i, j \in 1..Len(chunks) :
          /\ chunks[i].content.sep = "\n"
          /\ chunks[j].content.sep = " "

\* C12: every passage chunkDocument returns is within the token budget:
\* its token count is at most maxTokens, for every document and every
\* overlap value.
C12_WithinBudget ==
    chunked => \A i \in 1..Len(chunks) : chunks[i].tokens <= opts.maxTokens

\* Some section node of the document has own content: a line of text
\* stands somewhere below a heading.
HasOwnContent ==
    \E p, q \in 1..Len(doc.content) :
        p < q /\ doc.content[p].shape # "text" /\ doc.content[q].shape = "text"

\* C13: for a document whose section forest has a node with non-empty own
\* content, chunkDocument with the default options returns at least one
\* passage, and so one with a non-empty section_hierarchy.
C13_SomePassage ==
    (chunked /\ opts = DefaultOptions /\ HasOwnContent) =>
        /\ Len(chunks) >= 1
        /\ \E i \in 1..Len(chunks) : chunks[i].section_hierarchy # <<>>

\* Text a ends with a non-empty run of sentences that text b begins with.
Overlaps(a, b) ==
    \E k \in 1..Min(Len(a.sents), Len(b.sents)) :
        SubSeq(a.sents, Len(a.sents) - k + 1, Len(a.sents)) = SubSeq(b.sents, 1, k)

\* C14: in every run with overlap > 0 that returns more than one passage,
\* each non-final passage ends with a non-empty piece of text that its
\* successor begins with.
C14_NeighboursOverlap ==
    (chunked /\ opts.overlap > 0 /\ Len(chunks) > 1) =>
        \A i \in 1..(Len(chunks) - 1) : Overlaps(chunks[i].content, chunks[i + 1].content)

\* The headings above line q whose shape is in `shapes`, the heading that
\* owns the text at line q (the nearest heading above it), the label
\* "id title" of the heading at line h, and the root-to-node path of the
\* node that heading opens, read off the lines of the document.
HeadingsBefore(q, shapes) == {p \in 1..(q - 1) : doc.content[p].shape \in shapes}

OwnerOf(q) ==
    LET hs == HeadingsBefore(q, LineShapes \ {"text"})
    IN IF hs = {} THEN 0 ELSE CHOOSE h \in hs : \A p \in hs : p <= h

LabelAt(h) == <<SectionId(doc.content[h]), SectionTitle(doc.content[h])>>

PathOf(h) ==
    LET line == doc.content[h]
        chapters == HeadingsBefore(h, {"chapter"})
        chapter == CHOOSE c \in chapters : \A p \in chapters : p <= c
        uppers == HeadingsBefore(h, {"chapter", "n.m"})
        upper == CHOOSE u \in uppers : \A p \in uppers : p <= u
        chaptersOfUpper == HeadingsBefore(upper, {"chapter"})
        chapterOfUpper == CHOOSE c \in chaptersOfUpper : \A p \in chaptersOfUpper : p <= c
    IN IF line.shape = "chapter" THEN <<LabelAt(h)>>
       ELSE IF line.shape = "n.m"
       THEN IF chapters = {} THEN <<LabelAt(h)>> ELSE <<LabelAt(chapter), LabelAt(h)>>
       ELSE IF uppers = {} THEN <<LabelAt(h)>>
       ELSE IF doc.content[upper].shape = "chapter" \/ chaptersOfUpper = {}
       THEN <<LabelAt(upper), LabelAt(h)>>
       ELSE <<LabelAt(chapterOfUpper), LabelAt(upper), LabelAt(h)>>

\* C15: every passage's section_hierarchy is the root-to-node path of
\* "id title" labels of the section node whose own content the passage came
\* from; every piece of one split block carries that path; the path is
\* empty exactly when the document has no section markers.
C15_HierarchyIsPath ==
    chunked =>
        \A i \in 1..Len(chunks) :
            /\ (chunks[i].section_hierarchy = <<>>) <=>
                   (\A p \in 1..Len(doc.content) : doc.content[p].shape = "text")
            /\ chunks[i].section_hierarchy # <<>> =>
                   \A k \in 1..Len(chunks[i].content.sents) :
                       LET q == chunks[i].content.sents[k].pos
                       IN OwnerOf(q) # 0 /\ chunks[i].section_hierarchy = PathOf(OwnerOf(q))

\* A piece of a split block that lies two levels deep.
C15_Witness ==
    /\ chunked
    /\ \E i \in 1..Len(chunks) :
          /\ Len(chunks[i].section_hierarchy) >= 2
          /\ chunks[i].content.sep = " "

\* Where in the document a passage's text begins: the line of its first
\* sentence.
BeginsAt(chunk) == chunk.content.sents[1].pos

\* C17: passages are emitted in reading order: for ordinals i < j the source
\* text of passage i does not begin after the source text of passage j.
C17_ReadingOrder ==
    chunked =>
        \A i, j \in 1..Len(chunks) : i < j => BeginsAt(chunks[i]) <= BeginsAt(chunks[j])

\* Pieces of one split block under a heading, the later one beginning
\* further down the document.
C17_Witness ==
    /\ chunked
    /\ \E i, j \in 1..Len(chunks) :
          /\ i < j
          /\ chunks[i].content.sep = " " /\ chunks[j].content.sep = " "
          /\ chunks[i].section_hierarchy # <<>>
          /\ BeginsAt(chunks[i]) < BeginsAt(chunks[j])

----------------------------------------------------------------------------
(* Claims about retrieval *)

\* The (document id, passage id) of a result.
Pair(result) == <<result.document.id, result.chunk.chunk_id>>

Positions(list, pair) == {i \in 1..Len(list) : Pair(list[i]) = pair}

RECURSIVE SumIncrements(_)
SumIncrements(positions) ==
    IF positions = {} THEN 0
    ELSE LET i == CHOOSE i \in positions : TRUE
         IN Increment(i - 1) + SumIncrements(positions \ {i})

\* The sum of 1 / (60 + rank + 1) over the 0-based positions a pair
\* occupies in the two lists.
PairScore(pair) ==
    SumIncrements(Positions(semanticHits, pair)) + SumIncrements(Positions(keywordHits, pair))

\* Where a pair first appears, the vector list being scanned first.
FirstAppearance(pair) ==
    LET scanned == semanticHits \o keywordHits
    IN CHOOSE i \in 1..Len(scanned) :
          /\ Pair(scanned[i]) = pair
          /\ \A j \in 1..(i - 1) : Pair(scanned[j]) # pair

\* C18: the fusion gives each (document id, passage id) the sum, over the
\* vector list and the lexical list, of 1 / (60 + rank + 1) for each
\* position it occupies; the output has at most `limit` entries, each pair
\* at most once, sorted by fused score descending, equal scores in order
\* of first appearance.
C18_FusedRanking ==
    searchPc = "done" =>
        /\ Len(fused) <= searchLimit
        /\ \A i, j \in 1..Len(fused) : i # j => Pair(fused[i]) # Pair(fused[j])
        /\ \A i \in 1..Len(fused) : fused[i].score = PairScore(Pair(fused[i]))
        /\ \A i, j \in 1..Len(fused) :
              i < j =>
                 /\ fused[i].score >= fused[j].score
                 /\ fused[i].score = fused[j].score =>
                       FirstAppearance(Pair(fused[i])) < FirstAppearance(Pair(fused[j]))

InOnlyOneList(pair) ==
    (Positions(semanticHits, pair) = {}) # (Positions(keywordHits, pair) = {})

\* C19: a passage at rank 0 in both the vector list and the lexical list
\* is placed strictly before every passage that appears in only one of
\* the two lists.
C19_TopOfBothFirst ==
    (/\ searchPc = "done"
     /\ semanticHits # <<>> /\ keywordHits # <<>>
     /\ Pair(semanticHits[1]) = Pair(keywordHits[1])) =>
        \A j \in 1..Len(fused) :
            InOnlyOneList(Pair(fused[j])) =>
                \E i \in 1..(j - 1) : Pair(fused[i]) = Pair(semanticHits[1])

\* A passage contains a query term.
ContainsQueryTerm(result) ==
    Elements(tokenize(result.chunk.content)) \cap Elements(tokenize(query)) # {}

\* C20: over a store of two passages of which only one contains a query
\* term, hybridSearch returns that passage first, whichever of the two the
\* vector search ranks higher.
C20_LexicalMatchFirst ==
    (/\ searchPc = "done"
     /\ Len(store) = 2
     /\ \E i \in 1..2 : ContainsQueryTerm(store[i]) /\ ~ContainsQueryTerm(store[3 - i])) =>
        /\ fused # <<>>
        /\ ContainsQueryTerm(fused[1])

----------------------------------------------------------------------------
(* Further claims about the embedding client *)

\* The texts of the batch call that had a cached vector when it was made.
CachedAtCall == {op.texts[i] : i \in (1..Len(op.texts)) \ {op.misses[j] : j \in 1..Len(op.misses)}}

\* C28: embedBatch checks every text against the cache before forming
\* batches and sends only the misses, packed into batches of batchSize: a
\* call with m misses makes ceil(m / batchSize) provider calls, none of
\* them carrying a text that was cached, and a fully cached input makes no
\* provider call.  Stated of a client that has at least one worker.
C28_MissesPackedIntoBatches ==
    (IsBatch /\ op.status = "resolved" /\ cfg.maxConcurrency >= 1) =>
        /\ op.logical = (Len(op.misses) + cfg.batchSize - 1) \div cfg.batchSize
        /\ \A s \in op.sent : \A j \in 1..Len(s[2]) : s[2][j] \notin CachedAtCall

\* C29: embed and embedBatch both key the cache by the hash of the trimmed
\* text: a vector cached by embed, and not expired, is a cache hit in
\* embedBatch for every text equal to it after trimming.
C29_SameKeyInBothCalls ==
    (IsBatch /\ prev.kind = "embedText" /\ ~prev.lost) =>
        \A i \in 1..Len(op.texts) :
            Trim(op.texts[i]) = Trim(prev.text) =>
                \A j \in 1..Len(op.misses) : op.misses[j] # i

----------------------------------------------------------------------------
(* The embedding client with a cache that is full or nearly so *)

CacheRoom == 2           \* most free entries of the cache at the start

\* The cache after n earlier embedText calls on n different texts.
Prefilled(n) ==
    [i \in 1..n |-> [key |-> cacheKey(ToString(i)), value |-> Vec(ToString(i), VECTOR_SIZE)]]

FullCacheInit ==
    /\ cfg \in {c \in Configs : /\ c.maxConcurrency = 1
                                /\ c.rateLimitPerMinute = MaxRateLimit
                                /\ c.vectorLen = VECTOR_SIZE}
    /\ cache \in {Prefilled(MAX_CACHE_ENTRIES - k) : k \in 0..CacheRoom}
    /\ requestTimestamps = <<>>
    /\ clock = 0
    /\ queue = <<>>
    /\ workers = [w \in Workers |-> IdleWorker]
    /\ op = NoOp
    /\ prev = NoPrev
    /\ env = EnvInit
    /\ ChunkIdle
    /\ SearchIdle
    /\ CorpusIdle

\* The provider answers every call and no entry outlives its TTL.
FullCacheNext ==
    \/ \E t \in TextSet \cup {PaddedText} : EmbedText(t)
    \/ \E ts \in BatchInputs : EmbedBatch(ts)
    \/ \E w \in Workers : DocumentsResolve(w, "full")
    \/ \E w \in Workers : QueryResolve(w)
    \/ \E w \in Workers : RateLimitWake(w)
    \/ \E w \in Workers : WorkerNext(w)

FullCacheSpec == FullCacheInit /\ [][FullCacheNext]_vars

KeySet(c) == {c[i].key : i \in 1..Len(c)}

\* C30: the cache never holds more than its capacity (1000 entries):
\* inserting a new key into a full cache evicts exactly one existing entry
\* first, and re-inserting a key that is present evicts none.  Over every
\* step the entries lost are as many as the new keys exceed the room left.
C30_CapacityKept ==
    [][LET added == KeySet(cache') \ KeySet(cache)
           lost == KeySet(cache) \ KeySet(cache')
       IN /\ Len(cache') <= MAX_CACHE_ENTRIES
          /\ Cardinality(lost) =
                Max(0, Len(cache) + Cardinality(added) - MAX_CACHE_ENTRIES)]_vars

\* A full cache whose newest entry was inserted by a call and whose oldest
\* entry was evicted for it.
C30_Witness ==
    /\ Len(cache) = MAX_CACHE_ENTRIES
    /\ cache[MAX_CACHE_ENTRIES].key \in {cacheKey(t) : t \in TextSet}
    /\ ~CacheHas(cache, cacheKey(ToString(1)))
----------------------------------------------------------------------------
(* QdrantManager (corpus/qdrant-client.ts): requests to the vector store.   *)
(* A public call runs against a world [q, log, warned]: the store, the      *)
(* requests issued so far by the call and the warnings it logged.  The      *)
(* environment of a call is the set `faults` of the positions in its log    *)
(* at which a request fails for a reason of its own (network, disk,         *)
(* provider).  A request that fails has no effect.                          *)

DEFAULT_BATCH_SIZE == 100
QDRANT_RETRY_ATTEMPTS == 3
CATEGORY_KEYS == {"mutual_funds", "portfolio_managers", "invits", "reits", "general"}
IndexFields == <<"circular_id", "category", "chapter", "date">>

MaxFaults == 3           \* most requests of one call that fail on their own
MaxChunks == 2           \* longest chunk list upserted by one call

\* undefined, for a field that holds a string
Absent == "<undefined>"
\* a ?? b
Coalesce(a, b) == IF a = Absent THEN b ELSE a
\* z.string().url()
Urls == {"https://sebi.gov.in/a"}
isUrl(s) == s \in Urls

Faults(n) == {f \in SUBSET (1..n) : Cardinality(f) <= MaxFaults}

World(q) == [q |-> q, log |-> <<>>, warned |-> 0]
\* The call issues a request; the store or service accepts it when it is
\* `allowed` and no fault hits it.
IssueFor(W, faults, to, name, arg, allowed) ==
    [W EXCEPT !.log = Append(@, [to |-> to, name |-> name, arg |-> arg,
                                 ok |-> allowed /\ (Len(W.log) + 1) \notin faults])]
Issue(W, faults, to, name, allowed) == IssueFor(W, faults, to, name, "", allowed)
LastOk(W) == W.log[Len(W.log)].ok
Warn(W) == [W EXCEPT !.warned = @ + 1]

Resolved(W, value) == [w |-> W, ok |-> TRUE, value |-> value, error |-> ""]
Rejected(W, error) == [w |-> W, ok |-> FALSE, value |-> <<>>, error |-> error]

\* collectionExists: any failure of getCollection reads as "not found".
collectionExists_Never(W) == FALSE
collectionExists(W) == LastOk(W)

\* Promise.all of the four createPayloadIndex requests: all are issued.
RECURSIVE createIndexes(_, _, _)
createIndexes(W, faults, i) ==
    IF i > Len(IndexFields) THEN W
    ELSE LET W1 == IssueFor(W, faults, "store", "createPayloadIndex", IndexFields[i],
                            W.q.collection)
             W2 == IF LastOk(W1)
                   THEN [W1 EXCEPT !.q.indexes = @ \cup {IndexFields[i]}]
                   ELSE W1
         IN createIndexes(W2, faults, i + 1)

\* The store refuses to create a collection that exists.
initializeCollection(W, faults) ==
    LET W1 == Issue(W, faults, "store", "getCollection", W.q.collection)
        W2 == Issue(Warn(W1), faults, "store", "createCollection", ~W1.q.collection)
        W3 == [W2 EXCEPT !.q.collection = TRUE]
        W4 == createIndexes(W3, faults, 1)
        first == Len(W3.log) + 1
    IN IF collectionExists(W1) THEN Resolved(W1, <<>>)
       ELSE IF ~LastOk(W2) THEN Rejected(W2, "createCollection")
       ELSE IF \E k \in first..Len(W4.log) : ~W4.log[k].ok
       THEN Rejected(W4, "createPayloadIndex")
       ELSE Resolved(W4, <<>>)

\* A chunk: the fields of SEBIChunk that the payload is built from, and the
\* metadata some callers attach to it.
NoMeta == [circular_id |-> Absent, category |-> Absent, url |-> Absent, title |-> Absent]
Chunk(chunkId, documentId, tokens, meta) ==
    [chunk_id |-> chunkId, document_id |-> documentId, tokens |-> tokens, metadata |-> meta]
\* SEBIChunkSchema.safeParse(...).success
SEBIChunkSchema(chunk) ==
    chunk.chunk_id # "" /\ chunk.document_id # "" /\ chunk.tokens >= 0

extractChunkMetadata(chunk) == chunk.metadata
buildPayload(chunk) ==
    LET meta == extractChunkMetadata(chunk)
    IN [chunk |-> <<chunk>>,
        circular_id |-> Coalesce(meta.circular_id, chunk.document_id),
        category |-> Coalesce(meta.category, "general"),
        url |-> meta.url,
        title |-> meta.title]

\* client.upsert: a point replaces the point of the same id.
Upserted(points, batch) ==
    LET ids == {batch[i].id : i \in 1..Len(batch)}
    IN SelectSeq(points, LAMBDA pt : pt.id \notin ids) \o batch

\* retry(operation, attempts = 3) around one request.
RetryExhausted3(attempt) == attempt > QDRANT_RETRY_ATTEMPTS
RECURSIVE retry(_, _, _, _, _)
retry(W, faults, name, allowed, attempt) ==
    IF RetryExhausted3(attempt) THEN W
    ELSE LET W1 == Issue(W, faults, "store", name, allowed)
         IN IF LastOk(W1) THEN W1
            ELSE retry(Warn(W1), faults, name, allowed, attempt + 1)

RECURSIVE upsertBatches(_, _, _, _, _)
upsertBatches(W, faults, chunkList, embeddings, i) ==
    IF i > Len(chunkList) THEN Resolved(W, Len(chunkList))
    ELSE LET last == Min(i + DEFAULT_BATCH_SIZE - 1, Len(chunkList))
             batch == [k \in 1..(last - i + 1) |->
                          [id |-> chunkList[i + k - 1].chunk_id,
                           vector |-> embeddings[i + k - 1],
                           payload |-> buildPayload(chunkList[i + k - 1])]]
             W1 == retry(W, faults, "upsert", W.q.collection, 1)
         IN IF ~LastOk(W1) THEN Rejected(W1, "upsert")
            ELSE upsertBatches([W1 EXCEPT !.q.points = Upserted(@, batch)],
                               faults, chunkList, embeddings, i + DEFAULT_BATCH_SIZE)

upsertChunks(W, faults, chunkList, embeddings) ==
    IF Len(chunkList) # Len(embeddings)
    THEN Rejected(W, "Chunks and embeddings length mismatch")
    ELSE upsertBatches(W, faults, chunkList, embeddings, 1)

\* SEBIDocumentSchema.parse(docCandidate) succeeds
SEBIDocumentSchema(d) ==
    /\ d.id # "" /\ d.id # Absent
    /\ d.circular_id # "" /\ d.circular_id # Absent
    /\ d.title # "" /\ d.title # Absent
    /\ d.category \in CATEGORY_KEYS
    /\ isUrl(d.url)

\* payloadToDocument, before the schema is applied (the payloads here hold
\* no `document` object).
payloadToDocument(payload, chunk) ==
    [id |-> chunk.document_id,
     circular_id |-> Coalesce(payload.circular_id, chunk.document_id),
     title |-> Coalesce(payload.title, "SEBI Circular " \o chunk.document_id),
     category |-> Coalesce(payload.category, "general"),
     url |-> Coalesce(payload.url, "")]

\* mapHitToResult: a result, null, or an exception.
mapHitToResult(hit) ==
    IF hit.payload.chunk = <<>>
    THEN [kind |-> "null", warned |-> FALSE, hit |-> hit]
    ELSE IF ~SEBIChunkSchema(hit.payload.chunk[1])
    THEN [kind |-> "null", warned |-> TRUE, hit |-> hit]
    ELSE IF ~SEBIDocumentSchema(payloadToDocument(hit.payload, hit.payload.chunk[1]))
    THEN [kind |-> "throw", warned |-> FALSE, hit |-> hit]
    ELSE [kind |-> "result", warned |-> FALSE, hit |-> hit]

ResultOf(hit) ==
    [chunk |-> [hit.payload.chunk[1] EXCEPT !.metadata = NoMeta],
     document |-> payloadToDocument(hit.payload, hit.payload.chunk[1])]

\* buildFilter and the store's match on the category field.
Matches(pt, category) == category = Absent \/ pt.payload.category = category

\* hits.map(mapHitToResult).filter(Boolean), and the loop of fetchAllPoints
MapHits(W, hits) ==
    LET mapped == [i \in 1..Len(hits) |-> mapHitToResult(hits[i])]
        kept == SelectSeq(mapped, LAMBDA r : r.kind = "result")
        W1 == [W EXCEPT !.warned = @ + Cardinality({i \in 1..Len(hits) : mapped[i].warned})]
    IN IF \E i \in 1..Len(hits) : mapped[i].kind = "throw"
       THEN Rejected(W1, "ZodError")
       ELSE Resolved(W1, [i \in 1..Len(kept) |-> ResultOf(kept[i].hit)])

\* semanticSearch: the store answers with its points that match, ranked
\* (here in stored order).
semanticSearch(W, faults, category, n) ==
    LET W1 == Issue(W, faults, "store", "search", W.q.collection)
        hits == slice(SelectSeq(W.q.points, LAMBDA pt : Matches(pt, category)), n)
    IN IF ~LastOk(W1) THEN Rejected(W1, "search") ELSE MapHits(W1, hits)

\* fetchAllPoints: the store holds fewer points than a page, so that the
\* first scroll request returns them all.
fetchAllPoints(W, faults, category) ==
    LET W1 == Issue(W, faults, "store", "scroll", W.q.collection)
        hits == SelectSeq(W.q.points, LAMBDA pt : Matches(pt, category))
    IN IF ~LastOk(W1) THEN Rejected(W1, "scroll") ELSE MapHits(W1, hits)

----------------------------------------------------------------------------
(* QdrantManager: public calls, one after the other *)

MaxCalls == 3            \* public calls per run

\* A point some other writer left in the collection: its payload holds no
\* chunk.
LegacyPoint ==
    [id |-> "p0", vector |-> "v",
     payload |-> [chunk |-> <<>>, circular_id |-> Absent, category |-> "general",
                  url |-> Absent, title |-> Absent]]
LegacyStore ==
    [collection |-> TRUE,
     indexes |-> {IndexFields[i] : i \in 1..Len(IndexFields)},
     points |-> <<LegacyPoint>>]

FullMeta ==
    [circular_id |-> "SEBI/1", category |-> "mutual_funds",
     url |-> "https://sebi.gov.in/a", title |-> "TER"]
\* The chunks handed to upsertChunks: with and without metadata, one with
\* a category outside the enum, one that fails SEBIChunkSchema.
ChunkValues ==
    {Chunk("c1", "d1", 1, FullMeta),
     Chunk("c2", "d1", 1, NoMeta),
     Chunk("c3", "d1", 1, [FullMeta EXCEPT !.category = "amc"]),
     Chunk("c4", "d1", 0 - 1, FullMeta)}
ChunkLists == UNION {[1..n -> ChunkValues] : n \in 0..MaxChunks}

created(log) ==
    SelectSeq(log, LAMBDA e : e.ok /\ e.name \in {"createCollection", "createPayloadIndex"})

\* A public call settles.
Settled(kind, args, r) ==
    /\ call.seq < MaxCalls
    /\ qdrant' = r.w.q
    /\ requests' = r.w.log
    /\ call' = [kind |-> kind, args |-> args, ok |-> r.ok, value |-> r.value,
                error |-> r.error, warned |-> r.w.warned,
                created |-> call.created \o created(r.w.log), seq |-> call.seq + 1,
                before |-> [kind |-> call.kind, ok |-> call.ok, value |-> call.value]]
    /\ UNCHANGED <<embedVars, chunkVars, searchVars>>

QdrantInitialize(faults) ==
    Settled("initializeCollection", <<>>, initializeCollection(World(qdrant), faults))

QdrantUpsert(chunkList, faults) ==
    Settled("upsertChunks", <<chunkList>>,
            upsertChunks(World(qdrant), faults, chunkList, [i \in 1..Len(chunkList) |-> "v"]))

QdrantSearch(category, faults) ==
    Settled("semanticSearch", <<category>>,
            semanticSearch(World(qdrant), faults, category, DEFAULT_LIMIT))

QdrantScan(category, faults) ==
    Settled("fetchAllPoints", <<category>>, fetchAllPoints(World(qdrant), faults, category))

StoreInit ==
    /\ qdrant \in {EmptyStore, LegacyStore}
    /\ requests = <<>>
    /\ call = NoCall
    /\ cfg = IdleConfig
    /\ EmbedIdle
    /\ ChunkIdle
    /\ SearchIdle

StoreNext ==
    \/ \E faults \in Faults(2 + Len(IndexFields)) : QdrantInitialize(faults)
    \/ \E chunkList \in ChunkLists, faults \in Faults(QDRANT_RETRY_ATTEMPTS) :
          QdrantUpsert(chunkList, faults)
    \/ \E category \in {Absent, "mutual_funds"}, faults \in Faults(1) :
          QdrantSearch(category, faults)
    \/ \E category \in {Absent, "mutual_funds"}, faults \in Faults(1) :
          QdrantScan(category, faults)

StoreSpec == StoreInit /\ [][StoreNext]_vars

\* C26: initializeCollection is idempotent: over any sequence of calls made
\* one after the other against one store, the collection and each of its
\* four payload indexes are created at most once, and a call that finds
\* the collection present issues no create request and resolves.
C26_CreatedOnce ==
    /\ \A i, j \in 1..Len(call.created) : i # j => call.created[i] # call.created[j]
    /\ (call.kind = "initializeCollection" /\ requests[1].ok) =>
          call.ok /\ created(requests) = <<>> /\ Len(requests) = 1

\* A second initializeCollection found the collection that the first one
\* created, with its four indexes.
C26_Witness ==
    /\ call.kind = "initializeCollection" /\ call.seq >= 2
    /\ requests[1].ok
    /\ Len(call.created) = 1 + Len(IndexFields)

\* The requests by which the last call failed: its last requests, all of
\* one name and all failed.
FailedAttempts ==
    {k \in 1..Len(requests) :
        \A i \in k..Len(requests) : ~requests[i].ok /\ requests[i].name = call.error}

\* C27: a failing vector-store call, whether an upsert batch or a
\* search/scroll request, is retried a fixed number of times (3 attempts in
\* total), and its error is surfaced to the caller only after the last
\* attempt has failed.
C27_StoreCallsRetried ==
    (~call.ok /\ call.error \in {"upsert", "search", "scroll"}) =>
        Cardinality(FailedAttempts) = QDRANT_RETRY_ATTEMPTS

\* The stored points the last query matched, and those among them whose
\* payload is well formed.
MatchedPoints == SelectSeq(qdrant.points, LAMBDA pt : Matches(pt, call.args[1]))
WellFormed(pt) ==
    /\ pt.payload.chunk # <<>>
    /\ SEBIChunkSchema(pt.payload.chunk[1])
    /\ SEBIDocumentSchema(payloadToDocument(pt.payload, pt.payload.chunk[1]))

\* C21: a stored point whose payload is malformed never makes a query fail:
\* in semanticSearch and in the full scan behind hybridSearch, a point with
\* no chunk, with a chunk failing schema validation, or whose reconstructed
\* document fails validation is skipped and logged, and the remaining
\* results are still returned.
C21_MalformedSkipped ==
    (call.kind \in {"semanticSearch", "fetchAllPoints"} /\ requests[1].ok) =>
        LET good == SelectSeq(MatchedPoints, WellFormed)
        IN /\ call.ok
           /\ call.value = [i \in 1..Len(good) |-> ResultOf(good[i])]
           /\ call.warned = Len(MatchedPoints) - Len(good)

----------------------------------------------------------------------------
(* CorpusIngestion (corpus/ingest.ts).  A file is known by its path,        *)
(* whether it can be read, the document the parser makes of it (none when   *)
(* the parser throws) and the number of passages chunkDocument makes of     *)
(* that document.                                                           *)

MaxEntries == 2          \* most entries of a directory
MaxIngestCalls == 2      \* public calls per run of the ingestion
\* the requests of one ingestPDF on an empty store
MaxRequests == 4 + Len(IndexFields) + QDRANT_RETRY_ATTEMPTS

Document(id, circularId, category) ==
    [id |-> id, circular_id |-> circularId, category |-> category,
     url |-> "https://sebi.gov.in/a", title |-> "TER"]
NoOverrides ==
    [id |-> Absent, circular_id |-> Absent, category |-> Absent, url |-> Absent,
     title |-> Absent]

\* { ...document, ...overrides }
mergeMetadata(document, overrides) ==
    [f \in DOMAIN document |-> Coalesce(overrides[f], document[f])]

\* validateMetadata: the message of the error it throws, "" when none.
validateMetadata(metadata) ==
    IF metadata.circular_id \in {Absent, ""} THEN "Missing circular_id in metadata"
    ELSE IF metadata.category \in {Absent, ""} THEN "Missing category in metadata"
    ELSE IF metadata.category \notin CATEGORY_KEYS THEN "Invalid category"
    ELSE ""

\* The chunks chunkDocument returns for a document of n passages: they
\* carry no metadata.
chunksOf(document, n) ==
    [i \in 1..n |-> Chunk(document.id \o "-chunk-" \o ToString(i - 1), document.id, 1, NoMeta)]

noChunks_Ignored(chunkList) == FALSE

\* if (chunks.length === 0) throw new Error(`No chunks produced for ...`)
noChunks(chunkList) == Len(chunkList) = 0

ingestPDF(W, faults, file, overrides) ==
    LET r0 == initializeCollection(W, faults)
        W1 == IssueFor(r0.w, faults, "fs", "readFile", file.path, file.readable)
        W2 == IssueFor(W1, faults, "parser", "parse", file.path, file.parsed # <<>>)
        merged == mergeMetadata(file.parsed[1], overrides)
        chunkList == chunksOf(merged, file.passages)
        W3 == Issue(W2, faults, "provider", "embedChunks", TRUE)
        r4 == upsertChunks(W3, faults, chunkList, [i \in 1..Len(chunkList) |-> "v"])
    IN IF ~r0.ok THEN Rejected(r0.w, r0.error)
       ELSE IF ~LastOk(W1) THEN Rejected(W1, "readFile")
       ELSE IF ~LastOk(W2) THEN Rejected(W2, "parse")
       ELSE IF ~SEBIDocumentSchema(merged) THEN Rejected(W2, "ZodError")
       ELSE IF validateMetadata(merged) # "" THEN Rejected(W2, validateMetadata(merged))
       ELSE IF noChunks(chunkList) THEN Rejected(W2, "No chunks produced")
       ELSE IF ~LastOk(W3) THEN Rejected(W3, "embedChunks")
       ELSE IF ~r4.ok THEN Rejected(r4.w, r4.error)
       ELSE Resolved(r4.w, [pdfPath |-> file.path,
                            circularId |-> merged.circular_id,
                            chunkCount |-> Len(chunkList),
                            embeddingCount |-> r4.value,
                            document |-> merged])

\* entry.name.toLowerCase().endsWith('.pdf')
toLowerCase(name) == IF name = "b.PDF" THEN "b.pdf" ELSE name
endsWithPdf(name) == toLowerCase(name) \in {"a.pdf", "b.pdf", "c.pdf", "e.pdf", "u.pdf"}

RECURSIVE walkPdfFiles(_)
walkPdfFiles(entries) ==
    IF entries = <<>> THEN <<>>
    ELSE LET entry == Head(entries)
             found == IF entry.isDirectory THEN walkPdfFiles(entry.entries)
                      ELSE IF endsWithPdf(entry.file.path) THEN <<entry.file>>
                      ELSE <<>>
         IN found \o walkPdfFiles(Tail(entries))

\* catch (error) { failures.push(...) }: the loop goes on with the rest.
afterFailure_Abort(rest) == <<>>
afterFailure(rest) == rest

NoneIngested == [summaries |-> <<>>, failures |-> <<>>, attempted |-> <<>>]

\* The loop of ingestDirectory; `attempted` records the files handed to
\* ingestPDF.
RECURSIVE ingestEach(_, _, _, _)
ingestEach(W, faults, pdfFiles, acc) ==
    IF pdfFiles = <<>> THEN [w |-> W, acc |-> acc]
    ELSE LET pdf == Head(pdfFiles)
             r == ingestPDF(W, faults, pdf, NoOverrides)
             tried == [acc EXCEPT !.attempted = Append(@, pdf.path)]
         IN IF r.ok
            THEN ingestEach(r.w, faults, Tail(pdfFiles),
                            [tried EXCEPT !.summaries = Append(@, r.value)])
            ELSE ingestEach(r.w, faults, afterFailure(Tail(pdfFiles)),
                            [tried EXCEPT !.failures =
                                Append(@, [file |-> pdf.path, error |-> r.error])])

ingestDirectory(W, faults, entries) ==
    LET pdfFiles == walkPdfFiles(entries)
        done == ingestEach(W, faults, pdfFiles, NoneIngested)
    IN Resolved(done.w, [totalFiles |-> Len(pdfFiles),
                         successCount |-> Len(done.acc.summaries),
                         failureCount |-> Len(done.acc.failures),
                         summaries |-> done.acc.summaries,
                         failures |-> done.acc.failures,
                         attempted |-> done.acc.attempted])

\* QdrantManager.deleteChunksByCircularId: one request that removes the
\* points of the circular.
deleteChunksByCircularId(W, faults, circularId) ==
    LET W1 == IssueFor(W, faults, "store", "deleteChunksByCircularId", circularId,
                       W.q.collection)
    IN IF LastOk(W1)
       THEN [W1 EXCEPT !.q.points =
                SelectSeq(@, LAMBDA pt : pt.payload.circular_id # circularId)]
       ELSE W1

\* await this.qdrant.deleteChunksByCircularId(circularId) throws
deletionFailed_Ignored(W) == FALSE
deletionFailed(W) == ~LastOk(W)

updateCorpus(W, faults, circularId, file) ==
    LET W1 == deleteChunksByCircularId(W, faults, circularId)
    IN IF deletionFailed(W1) THEN Rejected(W1, "deleteChunksByCircularId")
       ELSE ingestPDF(W1, faults, file, [NoOverrides EXCEPT !.circular_id = circularId])

----------------------------------------------------------------------------
(* CorpusIngestion: public calls, one after the other *)

File(path, readable, parsed, passages) ==
    [path |-> path, readable |-> readable, parsed |-> parsed, passages |-> passages]
FileA == File("a.pdf", TRUE, <<Document("d1", "SEBI/1", "mutual_funds")>>, 2)
FileB == File("b.PDF", TRUE, <<Document("d2", "SEBI/2", "general")>>, 1)
\* a document whose category is outside the enum
FileC == File("c.pdf", TRUE, <<Document("d3", "SEBI/3", "amc")>>, 1)
\* a file that cannot be read
FileU == File("u.pdf", FALSE, <<>>, 0)
\* a document of which chunkDocument makes no passage (no text)
FileE == File("e.pdf", TRUE, <<Document("d4", "SEBI/4", "general")>>, 0)
Notes == File("notes.txt", TRUE, <<>>, 0)
PdfFiles == {FileA, FileB, FileC, FileE, FileU}

Entry(file) == [isDirectory |-> FALSE, file |-> file, entries |-> <<>>]
Directory(entries) == [isDirectory |-> TRUE, file |-> Notes, entries |-> entries]
Entries ==
    {Entry(FileA), Entry(FileC), Entry(Notes), Directory(<<Entry(FileB), Entry(FileU)>>)}
Directories == Rankings(Entries, MaxEntries)

\* The circular ids updateCorpus is called with: those of the documents,
\* and "d1", under which the points of a.pdf are stored.
CircularIds == {"SEBI/1", "SEBI/2", "d1"}

\* One request of the call fails on its own, or none does.
OneFault(n) == {{}} \cup {{k} : k \in 1..n}

IngestPDF(file, faults) ==
    Settled("ingestPDF", <<file>>, ingestPDF(World(qdrant), faults, file, NoOverrides))

IngestDirectory(entries, faults) ==
    Settled("ingestDirectory", <<entries>>, ingestDirectory(World(qdrant), faults, entries))

UpdateCorpus(circularId, file, faults) ==
    Settled("updateCorpus", <<circularId, file>>,
            updateCorpus(World(qdrant), faults, circularId, file))

IngestInit ==
    /\ qdrant = EmptyStore
    /\ requests = <<>>
    /\ call = NoCall
    /\ cfg = IdleConfig
    /\ EmbedIdle
    /\ ChunkIdle
    /\ SearchIdle

IngestNext ==
    /\ call.seq < MaxIngestCalls
    /\ \/ \E file \in PdfFiles, faults \in OneFault(MaxRequests) : IngestPDF(file, faults)
       \/ \E entries \in Directories, faults \in OneFault(MaxRequests) :
             IngestDirectory(entries, faults)
       \/ \E circularId \in CircularIds, file \in PdfFiles, faults \in OneFault(2) :
             UpdateCorpus(circularId, file, faults)
       \/ \E category \in CATEGORY_KEYS, faults \in OneFault(1) : QdrantSearch(category, faults)

IngestSpec == IngestInit /\ [][IngestNext]_vars

\* C23: when a document fails metadata validation, ingestPDF rejects before
\* any call to the vector store or the embedding provider has been made
\* for that document.
C23_ValidationBeforeNetwork ==
    (call.kind = "ingestPDF" /\ ~call.ok
        /\ call.error \in {"ZodError", "Missing circular_id in metadata",
                           "Missing category in metadata", "Invalid category"}) =>
        \A k \in 1..Len(requests) : requests[k].to \notin {"store", "provider"}

\* The stored points of document D.
PointsOf(D) ==
    SelectSeq(qdrant.points,
              LAMBDA pt : pt.payload.chunk # <<>> /\ pt.payload.chunk[1].document_id = D.id)

\* C22: after ingestPDF of a document D succeeds, every upserted point's
\* payload carries D's circular id and category (and title and url), so
\* that a later search filtered by D's category matches those points and
\* reconstructs D's fields.
C22_PayloadCarriesDocument ==
    /\ (call.kind = "ingestPDF" /\ call.ok) =>
          LET D == call.value.document
          IN \A i \in 1..Len(PointsOf(D)) :
                LET payload == PointsOf(D)[i].payload
                IN /\ payload.circular_id = D.circular_id
                   /\ payload.category = D.category
                   /\ payload.title = D.title
                   /\ payload.url = D.url
    /\ (/\ call.kind = "semanticSearch" /\ requests[1].ok
        /\ call.before.kind = "ingestPDF" /\ call.before.ok
        /\ call.args[1] = call.before.value.document.category) =>
          /\ call.ok
          /\ \E i \in 1..Len(call.value) :
                call.value[i].document = call.before.value.document

C25_DeleteBeforeIngest ==
    call.kind = "updateCorpus" =>
        /\ requests[1].name = "deleteChunksByCircularId"
        /\ requests[1].arg = call.args[1]
        /\ (\E k \in 1..Len(requests) : requests[k].name = "upsert") => requests[1].ok
        /\ ~requests[1].ok => ~call.ok /\ Len(requests) = 1

\* An update that deleted, then ingested and upserted.
C25_Witness ==
    /\ call.kind = "updateCorpus" /\ call.ok
    /\ requests[1].ok
    /\ \E k \in 2..Len(requests) : requests[k].name = "upsert" /\ requests[k].ok

----------------------------------------------------------------------------
(* Further claims about the workers of embedBatch *)

\* C31: within one embedBatch call, batches leave the queue strictly in
\* input order, and a queued batch is started only when one of the workers
\* has finished the batch it was running.  After every step the queue is
\* the tail of the call's batches and every batch a worker holds precedes
\* the queued ones; once the call is launched, the queue loses one batch
\* at a time, its first, to a worker whose batch has ended.
C31_FifoDispatch ==
    [][/\ IsBatch' =>
            LET batches == createBatches(op'.texts, cfg.batchSize)
                n == Len(batches)
            IN /\ queue' = SubSeq(batches, n - Len(queue') + 1, n)
               /\ \A w \in Workers : \A i \in 1..Len(queue') :
                     workers'[w].pc # "idle" => workers'[w].start < queue'[i].start
       /\ (IsBatch /\ op'.seq = op.seq /\ queue' # queue) =>
            \E w \in Workers :
                /\ workers[w].pc = "next"
                /\ queue' = Tail(queue)
                /\ workers'[w].start = Head(queue).start
                /\ \A v \in Workers \ {w} : workers'[v] = workers[v]]_vars

\* A single worker holds the second or a later batch while another batch
\* waits in the queue.
C31_Witness ==
    /\ IsBatch /\ cfg.maxConcurrency = 1
    /\ Len(queue) >= 1
    /\ \E w \in Workers : workers[w].pc = "inflight" /\ workers[w].start >= 1

\* C32: the retry backoff starts at 100 ms and doubles.  Across the five
\* failing attempts of one provider call the waits are 100, 200, 400 and
\* 800 ms, one between each pair of consecutive attempts: the wait begun
\* when attempt k fails lasts 100 * 2^(k-1) ms, and no wait follows the
\* last attempt.
C32_BackoffFrom100 ==
    [][\A w \in Workers :
          (workers[w].pc = "inflight" /\ workers'[w].pc = "backoff") =>
              /\ workers[w].attempt < RETRY_ATTEMPTS
              /\ workers'[w].wakeAt - clock' =
                     Pow2(workers[w].attempt - 1) * BACKOFF_BASE_MS]_vars

\* C38: once one batch has exhausted its retries and embedBatch has
\* rejected, no further provider call is started for that invocation:
\* the batches still queued are not dispatched by the other workers, so
\* the queue and the set of batches sent to the provider stay as they
\* were when the call rejected.
C38_NoDispatchAfterReject ==
    [][(IsBatch /\ op.status = "rejected" /\ op'.seq = op.seq) =>
          /\ queue' = queue
          /\ op'.sent = op.sent]_vars

----------------------------------------------------------------------------
(* Claims about extractSections *)

\* The nodes of a forest, each with the line that opened it, its level, the
\* line and level of its parent (0 at the top level), how many children it
\* has and its own content.
RECURSIVE NodesOf(_, _, _)
NodesOf(list, parent, parentLevel) ==
    UNION {{[pos |-> list[i].id[2], id |-> list[i].id, level |-> list[i].level,
             parent |-> parent,
             parentLevel |-> parentLevel, children |-> Len(list[i].children),
             content |-> list[i].content]}
               \cup NodesOf(list[i].children, list[i].id[2], list[i].level) :
           i \in 1..Len(list)}

\* The last of the lines above line h with one of the shapes, 0 if none.
LastBefore(h, shapes) ==
    LET hs == HeadingsBefore(h, shapes)
    IN IF hs = {} THEN 0 ELSE CHOOSE x \in hs : \A p \in hs : p <= x

\* The most recently opened node of lower depth above the heading at line
\* h: none for a chapter, the current chapter for a section, and for a
\* sub-section the section opened since the current chapter, else that
\* chapter.
OpenAbove(h) ==
    LET chapter == LastBefore(h, {"chapter"})
        section == LastBefore(h, {"n.m"})
    IN IF doc.content[h].shape = "chapter" THEN 0
       ELSE IF doc.content[h].shape = "n.m" THEN chapter
       ELSE IF section > chapter THEN section ELSE chapter

LevelOf(shape) == IF shape = "chapter" THEN 1 ELSE IF shape = "n.m" THEN 2 ELSE 3

\* C35: extractSections attaches each new node to the most recently opened
\* node of lower depth: a chapter is top-level and closes the open section
\* and sub-section; a section goes under the current chapter, else to the
\* top level; a sub-section goes under the section opened since the
\* current chapter, else under that chapter, else to the top level.  Every
\* child has a greater level than its parent and a level-3 node has no
\* children.
C35_AttachedToOpenNode ==
    extracted.done =>
        LET nodes == NodesOf(extracted.sections, 0, 0)
            headings == {h \in 1..Len(doc.content) : doc.content[h].shape # "text"}
        IN /\ Cardinality(nodes) = Cardinality(headings)
           /\ \A h \in headings :
                 \E n \in nodes :
                     /\ n.pos = h
                     /\ n.level = LevelOf(doc.content[h].shape)
                     /\ n.parent = OpenAbove(h)
           /\ \A n \in nodes :
                 /\ n.level > n.parentLevel
                 /\ n.level = 3 => n.children = 0

\* A forest with a sub-section under a section under a chapter, and a
\* sub-section that went to the top level or under a chapter directly.
C35_Witness ==
    /\ extracted.done
    /\ \E n, m \in NodesOf(extracted.sections, 0, 0) :
          /\ n.level = 3 /\ n.parentLevel = 2
          /\ m.level = 3 /\ m.parentLevel < 2

\* The deepest node open when line q is read, as the line of its heading:
\* the sub-section opened since the open section and chapter, else the
\* section opened since the current chapter, else that chapter; 0 when no
\* marker precedes the line.
DeepestOpenAt(q) ==
    LET chapter == LastBefore(q, {"chapter"})
        section == LastBefore(q, {"n.m"})
        subSection == LastBefore(q, {"n.m.p"})
        upper == IF section > chapter THEN section ELSE chapter
    IN IF subSection > upper THEN subSection ELSE upper

\* The text lines read while the node of heading h was the deepest open
\* node, in input order.
ReadUnder(h) ==
    SelectSeq(doc.content, LAMBDA l : l.shape = "text" /\ DeepestOpenAt(l.pos) = h)

\* C36: every non-empty non-marker line that follows the first marker ends
\* up in the content of exactly one node, the deepest node open when the
\* line was read, with the lines kept in input order; the lines before the
\* first marker end up in no node, and a text with no marker yields an
\* empty forest.
C36_ContentInDeepestOpen ==
    extracted.done =>
        LET nodes == NodesOf(extracted.sections, 0, 0)
        IN /\ \A n \in nodes : n.content = ReadUnder(n.pos)
           /\ \A q \in 1..Len(doc.content) :
                 doc.content[q].shape = "text" =>
                    Cardinality({n \in nodes :
                                   \E k \in 1..Len(n.content) : n.content[k].pos = q})
                        = IF DeepestOpenAt(q) = 0 THEN 0 ELSE 1
           /\ (\A q \in 1..Len(doc.content) : doc.content[q].shape = "text") =>
                 extracted.sections = <<>>

\* A text whose first line precedes every marker and is lost, with two
\* lines under a sub-section.
C36_Witness ==
    /\ extracted.done
    /\ doc.content[1].shape = "text"
    /\ \E n \in NodesOf(extracted.sections, 0, 0) : n.level = 3 /\ Len(n.content) = 2

\* C37: a line that starts with a three-level number (N.M.P followed by a
\* title) is never turned into a level-2 section node: it always produces
\* a level-3 node whose id is N.M.P.
C37_ThreeLevelIsSubSection ==
    extracted.done =>
        LET nodes == NodesOf(extracted.sections, 0, 0)
        IN \A h \in 1..Len(doc.content) :
              doc.content[h].shape = "n.m.p" =>
                 /\ \E n \in nodes :
                       n.pos = h /\ n.level = 3 /\ n.id = SectionId(doc.content[h])
                 /\ \A n \in nodes : n.pos = h => n.level # 2

\* A three-level line read while a chapter and a section are open.
C37_Witness ==
    /\ extracted.done
    /\ \E h \in 1..Len(doc.content) :
          /\ doc.content[h].shape = "n.m.p"
          /\ LastBefore(h, {"n.m"}) > LastBefore(h, {"chapter"})
          /\ LastBefore(h, {"chapter"}) > 0

----------------------------------------------------------------------------
(* Further claims about chunkDocument *)

\* The sentences of passage b that passage a, closed before it, already
\* held: what the splitter carried from a into b.
CarriedInto(a, b) ==
    SelectSeq(b.sents, LAMBDA l : l.pos <= a.sents[Len(a.sents)].pos)

\* C34: when the sentence splitter closes a passage with overlap > 0, the
\* sentences carried into the next passage are a suffix of the closed
\* passage's sentences whose combined token count does not exceed overlap.
\* Stated for an unstructured document of which no passage is dropped, so
\* that the passages returned are the splitter's, in order.
C34_CarriedWithinOverlap ==
    (/\ chunked /\ opts.overlap > 0 /\ opts.minTokens = 0
     /\ \A p \in 1..Len(doc.content) : doc.content[p].shape = "text") =>
        \A i \in 1..(Len(chunks) - 1) :
            LET a == chunks[i].content
                carried == CarriedInto(a, chunks[i + 1].content)
            IN /\ Len(carried) <= Len(a.sents)
               /\ carried = SubSeq(a.sents, Len(a.sents) - Len(carried) + 1, Len(a.sents))
               /\ SumTokens(carried) <= opts.overlap

\* Whether a passage returned was the only candidate: the only passage the
\* splitter made of an unstructured document, the only content block of a
\* structured document, or the only piece of a block that was split.
OnlyCandidate(chunk) ==
    LET h == OwnerOf(chunk.content.sents[1].pos)
        block == ReadUnder(h)
        blocks == {p \in 1..Len(doc.content) :
                     doc.content[p].shape # "text" /\ ReadUnder(p) # <<>>}
    IN IF chunk.section_hierarchy = <<>>
       THEN Len(splitByTokens(doc.content, opts.maxTokens, opts.overlap)) = 1
       ELSE IF SumTokens(block) <= opts.maxTokens
       THEN Cardinality(blocks) = 1
       ELSE Len(splitByTokens(block, opts.maxTokens, opts.overlap)) = 1

\* C33: every passage returned by chunkDocument has at least minTokens
\* tokens, unless it was the only candidate: the only passage of an
\* unstructured document, the only content block of a structured document,
\* or the only piece of a split block.
C33_AtLeastMinTokens ==
    chunked =>
        \A i \in 1..Len(chunks) :
            chunks[i].tokens >= opts.minTokens \/ OnlyCandidate(chunks[i])

\* A run that returned a passage and dropped the text under another
\* heading.
C33_Witness ==
    /\ chunked
    /\ Len(chunks) >= 1
    /\ \E q \in 1..Len(doc.content) :
          /\ doc.content[q].shape = "text" /\ OwnerOf(q) # 0
          /\ \A i \in 1..Len(chunks) :
                \A k \in 1..Len(chunks[i].content.sents) : chunks[i].content.sents[k].pos # q

----------------------------------------------------------------------------
(* Further claims about CorpusIngestion *)

\* C40: ingestPDF rejects with a "No chunks produced" error whenever
\* chunking returns no passage, and in that case makes no
\* embedding-provider call and no upsert, so nothing is written to the
\* store for that document.  Chunking is reached when the file was parsed
\* and its metadata passed validation.
C40_NoChunksNoWrite ==
    [][(call'.seq # call.seq /\ call'.kind = "ingestPDF") =>
          LET file == call'.args[1]
              parsed == \E k \in 1..Len(requests') :
                           requests'[k].name = "parse" /\ requests'[k].ok
          IN /\ (/\ parsed /\ file.passages = 0
                 /\ SEBIDocumentSchema(mergeMetadata(file.parsed[1], NoOverrides))
                 /\ validateMetadata(mergeMetadata(file.parsed[1], NoOverrides)) = "") =>
                    ~call'.ok /\ call'.error = "No chunks produced"
             /\ (~call'.ok /\ call'.error = "No chunks produced") =>
                    /\ file.passages = 0
                    /\ \A k \in 1..Len(requests') :
                          requests'[k].to # "provider" /\ requests'[k].name # "upsert"
                    /\ qdrant'.points = qdrant.points]_vars

\* An ingestPDF that rejected for want of chunks over a store that holds
\* the points of an earlier document.
C40_Witness ==
    /\ call.kind = "ingestPDF" /\ ~call.ok /\ call.error = "No chunks produced"
    /\ call.before.kind = "ingestPDF" /\ call.before.ok
    /\ qdrant.points # <<>>

\* C39: updateCorpus is all-or-nothing for the stored chunks of a
\* circular: if re-ingestion fails after the deletion step (read, parse,
\* validation, chunking, embedding or upsert error), the chunks previously
\* stored for that circular are still present in the store.
C39_UpdateAllOrNothing ==
    [][(/\ call'.seq # call.seq /\ call'.kind = "updateCorpus"
        /\ requests'[1].ok /\ ~call'.ok) =>
          \A i \in 1..Len(qdrant.points) :
              qdrant.points[i].payload.circular_id = call'.args[1] =>
                 \E j \in 1..Len(qdrant'.points) : qdrant'.points[j] = qdrant.points[i]]_vars
====
